---------------------------- MODULE Spec2Model ----------------------------
(***************************************************************************)
(* terraformify: classification, rewriting and state patching of a        *)
(* Terraform configuration dump of a Fastly service.                      *)
(*                                                                         *)
(* The repository holds two generations of the library:                   *)
(*   generation "A": parseHCL / ParseVCLServiceResource / RewriteResources *)
(*       as free functions, descriptors carrying SensitiveValues that the  *)
(*       Fastly API fills in (src/lib/parse.go 1-573, unnamed/part_004,    *)
(*       unnamed/part_005 1-309, unnamed/part_008);                        *)
(*   generation "B": LoadTFConf / TFConf.ParseVCLServiceResource /         *)
(*       TFConf.RewriteResources reading terraform.tfstate through gojq    *)
(*       (src/lib/parse.go 575-1162, src/lib/tfstate.go, unnamed/part_003, *)
(*       unnamed/part_007).                                                *)
(* Strings are sequences of one-character strings, so that replacement,   *)
(* escaping and normalisation are computed character by character.        *)
(***************************************************************************)
EXTENDS Naturals, Sequences, FiniteSets, TLC

VARIABLES
    \* ---- pre-parse escaping (parseHCL / LoadTFConf)
    escVer,      \* "A" (parseHCL) or "B" (LoadTFConf)
    escIn,       \* the raw text handed to the function
    escOut1,     \* the text after one application of the escaping step
    escOut2,     \* the text after the step is applied to its own output
    escPc,       \* "raw" | "once" | "twice"
    \* ---- attribute extraction (getStringAttributeValue)
    gsBlock,     \* the block the attribute is read from
    gsKey,       \* the attribute key asked for
    gsRes,       \* the result: [err, value]
    gsPc,        \* "start" | "done"
    \* ---- the library calls of one run: classify, (fetch,) show, rewrite
    gen,         \* the generation of the library that runs: "A" | "B"
    doc1,        \* the first dump: the top-level blocks ParseVCLServiceResource reads
    clsErr,      \* the error classification returned
    props,       \* the descriptors classification returned, as later filled in
    fetched,     \* generation A: FetchAssetsViaFastlyAPI has filled the descriptors
    fetchFiles,  \* generation A: the files FetchAssetsViaFastlyAPI has written
    doc2,        \* the second dump: the top-level blocks RewriteResources reads
    tfstate,     \* generation B: the value of terraform.tfstate
    rw,          \* the outcome of RewriteResources on doc2
    rw2,         \* the outcome of RewriteResources on the output of the first run
    manageAll,   \* Config.ManageAll
    newState,    \* generation B: the state importService writes back, once patched
    pc,          \* "start" | "classified" | "shown" | "rewritten" | "rerun" | "failed"
    \* ---- importService, the pipeline of one service
    svcVer,      \* the importService that runs: "part_007" | "part_008"
    svcFails,    \* the external calls that fail in this run
    svcInteractive, \* Config.Interactive
    svcProps,    \* the variants of the descriptors classification returns
    svcDeps,     \* the descriptors the loop has still to visit
    svcLoop,     \* the descriptors the loop has visited, each with question, answer, import
    svcTemp,     \* the temp*.tf file: "none" | "present" | "removed"
    svcErr,      \* the value of the variable err
    svcRaw,      \* rawHCL: "dump" | "empty"
    svcTrace,    \* the steps performed so far, each with whether it failed
    svcRet,      \* "running", or what importService returned
    svcPc,       \* the step importService is at
    \* ---- TFState.Query, one call
    qQuery,      \* the jq query handed to Query
    qValue,      \* the Value of the TFState Query is called on
    qBefore,     \* that Value as it was when Query was called
    qRes,        \* the result: [err, value], value null when the *TFState is nil
    qPc,         \* "start" | "done"
    \* ---- TFStateWithIndexKeyQueryTemplate.Query, one call
    ikState,     \* the resources of the state the query is run on
    ikParams,    \* the IndexKeyQueryParams
    ikRes,       \* the resources of the state the query returned
    ikPc,        \* "start" | "done"
    \* ---- VCLServiceResourceProp.GetNormalizedName, one call
    nmName,      \* the name of the service
    nmOut,       \* the normalized name returned
    nmPc         \* "start" | "done"

escVars == <<escVer, escIn, escOut1, escOut2, escPc>>
gsVars == <<gsBlock, gsKey, gsRes, gsPc>>
libVars == <<gen, doc1, clsErr, props, fetched, fetchFiles, doc2, tfstate, rw, rw2, manageAll, newState, pc>>
svcVars == <<svcVer, svcFails, svcInteractive, svcProps, svcDeps, svcLoop, svcTemp, svcErr, svcRaw, svcTrace, svcRet, svcPc>>
qVars == <<qQuery, qValue, qBefore, qRes, qPc>>
ikVars == <<ikState, ikParams, ikRes, ikPc>>
nmVars == <<nmName, nmOut, nmPc>>
vars == <<escVars, gsVars, libVars, svcVars, qVars, ikVars, nmVars>>

---------------------------------------------------------------------------
(* Bounds of the model *)

\* longest raw text the escaping step is applied to
MaxText == 3

\* most attributes of a body attribute extraction is tried on
MaxGsAttrs == 2

\* most nested blocks of the service resource block
MaxNested == 2

\* most dependent resources importService imports
MaxDeps == 2

\* most external calls that fail in one run of importService
MaxFailures == 1

\* most elements of an array Query is run on
MaxElems == 2

\* most resources of a state the index key query is run on
MaxResources == 2

\* longest service name GetNormalizedName is called on
MaxName == 3

---------------------------------------------------------------------------
(* strings.ReplaceAll *)

\* s has prefix p at position i (1-based)
HasPrefixAt(s, p, i) ==
    /\ i + Len(p) - 1 <= Len(s)
    /\ \A k \in 1..Len(p) : s[i + k - 1] = p[k]

\* strings.ReplaceAll(s, old, new) for a non-empty old: non-overlapping
\* occurrences, leftmost first
RECURSIVE ReplaceFrom(_, _, _, _)
ReplaceFrom(s, old, new, i) ==
    IF i > Len(s) THEN << >>
    ELSE IF HasPrefixAt(s, old, i)
         THEN new \o ReplaceFrom(s, old, new, i + Len(old))
         ELSE <<s[i]>> \o ReplaceFrom(s, old, new, i + 1)

ReplaceAll(s, old, new) == ReplaceFrom(s, old, new, 1)

---------------------------------------------------------------------------
(* The raw text of a configuration dump, as far as escaping reads it.     *)
(* "%" and "{" are the two characters of the percent-brace sequence, "Q"  *)
(* is a double quote, "S" stands for the whole sentinel                   *)
(* `(sensitive value)`, "E" for the separator ` = ` and "x" for any other *)
(* character.  The sentinel and the separator are atomic: no occurrence   *)
(* of one overlaps an occurrence of the other or of itself.               *)

TextChars == {"%", "{", "Q", "S", "E", "x"}

RECURSIVE TextsUpTo(_)
TextsUpTo(n) ==
    IF n = 0 THEN {<< >>}
    ELSE LET shorter == TextsUpTo(n - 1)
         IN shorter \cup {Append(t, c) : t \in {u \in shorter : Len(u) = n - 1}, c \in TextChars}

Texts == TextsUpTo(MaxText)

\* parseHCL, the two replacements before hclwrite.ParseConfig
parseHCLEscape(rawHCL) ==
    LET pct == ReplaceAll(rawHCL, <<"%", "{">>, <<"%", "%", "{">>)
    IN ReplaceAll(pct, <<"S">>, <<"Q", "S", "Q">>)

\* LoadTFConf, the two replacements before hclwrite.ParseConfig
LoadTFConfEscape(rawHCL) ==
    LET pct == ReplaceAll(rawHCL, <<"%", "{">>, <<"%", "%", "{">>)
    IN ReplaceAll(pct, <<"E", "S">>, <<"E", "Q", "S", "Q">>)

EscapeStep(ver, text) ==
    IF ver = "A" THEN parseHCLEscape(text) ELSE LoadTFConfEscape(text)

EscInit ==
    /\ escVer \in {"A", "B"}
    /\ escIn \in Texts
    /\ escOut1 = << >>
    /\ escOut2 = << >>
    /\ escPc = "raw"

\* the escaping step applied to the raw text
EscapeRaw ==
    /\ escPc = "raw"
    /\ escOut1' = EscapeStep(escVer, escIn)
    /\ escPc' = "once"
    /\ UNCHANGED <<escVer, escIn, escOut2, gsVars, libVars, svcVars, qVars, ikVars, nmVars>>

\* the escaping step applied to text that has already been escaped
EscapeEscaped ==
    /\ escPc = "once"
    /\ escOut2' = EscapeStep(escVer, escOut1)
    /\ escPc' = "twice"
    /\ UNCHANGED <<escVer, escIn, escOut1, gsVars, libVars, svcVars, qVars, ikVars, nmVars>>

EscIdle ==
    /\ escVer = "A" /\ escIn = << >> /\ escOut1 = << >> /\ escOut2 = << >>
    /\ escPc = "idle"

---------------------------------------------------------------------------
(* hclwrite: tokens, expressions, attributes and blocks.                   *)
(* An expression is the token sequence hclwrite keeps for it, with the     *)
(* syntactic shape the HCL parser gave it.  A body is an ordered list of   *)
(* attributes and an ordered list of nested blocks; a new attribute is     *)
(* appended after the existing ones.                                       *)

Tok(type, bytes) == [type |-> type, bytes |-> bytes]

\* hclwrite.TokensForValue(cty.StringVal(v)), and the scanner's tokens for a
\* quoted string without interpolation: no TokenQuotedLit for the empty string
StringLitTokens(v) ==
    IF v = << >>
    THEN <<Tok("TokenOQuote", <<"Q">>), Tok("TokenCQuote", <<"Q">>)>>
    ELSE <<Tok("TokenOQuote", <<"Q">>), Tok("TokenQuotedLit", v), Tok("TokenCQuote", <<"Q">>)>>

\* name = "v"
StrLit(v) == [shape |-> "literal", tokens |-> StringLitTokens(v)]

\* buildFileFunction / getFileFunction: file("path")
buildFileFunction(path) ==
    <<Tok("TokenIdent", <<"file">>), Tok("TokenOParen", <<"(">>),
      Tok("TokenOQuote", <<"Q">>), Tok("TokenQuotedLit", path),
      Tok("TokenCQuote", <<"Q">>), Tok("TokenCParen", <<")">>)>>

\* an expression set with SetAttributeRaw(file(...)) reads back as a call
FileCall(path) == [shape |-> "call", tokens |-> buildFileFunction(path)]

\* jsonencode(<object>), no string argument: jsonencode({})
CallNoString ==
    [shape |-> "call",
     tokens |-> <<Tok("TokenIdent", <<"jsonencode">>), Tok("TokenOParen", <<"(">>),
                  Tok("TokenOBrace", <<"{">>), Tok("TokenCBrace", <<"}">>),
                  Tok("TokenCParen", <<")">>)>>]

\* "v${var.x}": a template with an interpolation after the literal part v
Template(v) ==
    [shape |-> "template",
     tokens |-> <<Tok("TokenOQuote", <<"Q">>), Tok("TokenQuotedLit", v),
                  Tok("TokenTemplateInterp", <<"$", "{">>), Tok("TokenIdent", <<"var">>),
                  Tok("TokenDot", <<".">>), Tok("TokenIdent", <<"x">>),
                  Tok("TokenTemplateSeqEnd", <<"}">>), Tok("TokenCQuote", <<"Q">>)>>]

\* hclwrite.TokensForTraversal of root.attr.attr ... (buildServiceIDRef)
RECURSIVE TraversalTokens(_)
TraversalTokens(steps) ==
    IF steps = << >> THEN << >>
    ELSE IF steps[1].kind = "root" THEN <<Tok("TokenIdent", steps[1].name)>> \o TraversalTokens(Tail(steps))
    ELSE IF steps[1].kind = "attr"
         THEN <<Tok("TokenDot", <<".">>), Tok("TokenIdent", steps[1].name)>> \o TraversalTokens(Tail(steps))
    ELSE <<Tok("TokenOBrack", <<"[">>), Tok("TokenNumberLit", steps[1].name), Tok("TokenCBrack", <<"]">>)>>
         \o TraversalTokens(Tail(steps))

TraverseRoot(n) == [kind |-> "root", name |-> n]
TraverseAttr(n) == [kind |-> "attr", name |-> n]
TraverseIndex(n) == [kind |-> "index", name |-> n]

Traversal(steps) == [shape |-> "traversal", tokens |-> TraversalTokens(steps)]

NumberLit(n) == [shape |-> "number", tokens |-> <<Tok("TokenNumberLit", n)>>]
BoolLit(b) == [shape |-> "bool", tokens |-> <<Tok("TokenIdent", b)>>]

Attr(key, expr) == [key |-> key, expr |-> expr]
Block(type, labels, attrs, blocks) ==
    [type |-> type, labels |-> labels, attrs |-> attrs, blocks |-> blocks]

\* index of the attribute with this key, 0 when the body has none
AttrIndex(block, key) ==
    IF \E i \in 1..Len(block.attrs) : block.attrs[i].key = key
    THEN CHOOSE i \in 1..Len(block.attrs) : block.attrs[i].key = key
    ELSE 0

HasAttr(block, key) == AttrIndex(block, key) # 0
AttrExpr(block, key) == block.attrs[AttrIndex(block, key)].expr

\* hclwrite Body.RemoveAttribute: nothing happens when the key is absent
RemoveAttribute(block, key) ==
    [block EXCEPT !.attrs = SelectSeq(block.attrs, LAMBDA a : a.key # key)]

\* hclwrite Body.SetAttributeValue / SetAttributeRaw / SetAttributeTraversal:
\* the expression of an existing attribute is replaced in place, a new
\* attribute is appended
SetAttribute(block, key, expr) ==
    IF HasAttr(block, key)
    THEN [block EXCEPT !.attrs[AttrIndex(block, key)].expr = expr]
    ELSE [block EXCEPT !.attrs = Append(block.attrs, Attr(key, expr))]

RECURSIVE RemoveAttributes(_, _)
RemoveAttributes(block, keys) ==
    IF keys = << >> THEN block
    ELSE RemoveAttributes(RemoveAttribute(block, keys[1]), Tail(keys))

---------------------------------------------------------------------------
(* getStringAttributeValue *)

\* index of the first TokenQuotedLit, Len + 1 when there is none
RECURSIVE FirstQuotedLit(_, _)
FirstQuotedLit(tokens, i) ==
    IF i > Len(tokens) \/ tokens[i].type = "TokenQuotedLit" THEN i
    ELSE FirstQuotedLit(tokens, i + 1)

NoErr == "nil"
ErrAttrNotFound == "ErrAttrNotFound"
ErrNoQuotedLit == "failed to find TokenQuotedLit"

getStringAttributeValue(block, attrKey) ==
    IF ~HasAttr(block, attrKey)
    THEN [err |-> ErrAttrNotFound, value |-> << >>]
    ELSE LET exprTokens == AttrExpr(block, attrKey).tokens
             i == FirstQuotedLit(exprTokens, 1)
         IN IF i = Len(exprTokens) + 1
            THEN [err |-> ErrNoQuotedLit, value |-> << >>]
            ELSE [err |-> NoErr, value |-> exprTokens[i].bytes]

\* the expressions an attribute of a configuration can carry
GsExprs ==
    {StrLit(<<"a">>), StrLit(<<"A", " ", "b">>), StrLit(<< >>),
     FileCall(<<".", "/", "p">>), CallNoString, Template(<<"a">>),
     Traversal(<<TraverseRoot(<<"var">>), TraverseAttr(<<"x">>)>>),
     NumberLit(<<"1">>), BoolLit(<<"true">>)}

GsKeys == {"name", "acl_id", "content"}

RECURSIVE GsAttrLists(_)
GsAttrLists(n) ==
    IF n = 0 THEN {<< >>}
    ELSE LET shorter == GsAttrLists(n - 1)
         IN shorter \cup
            {Append(l, Attr(k, e)) :
                l \in {u \in shorter : Len(u) = n - 1 /\ Len(u) < Cardinality(GsKeys)},
                k \in GsKeys, e \in GsExprs}

DistinctKeys(attrs) ==
    \A i, j \in 1..Len(attrs) : attrs[i].key = attrs[j].key => i = j

GsInit ==
    /\ gsBlock \in {Block("acl", << >>, l, << >>) : l \in {u \in GsAttrLists(MaxGsAttrs) : DistinctKeys(u)}}
    /\ gsKey \in GsKeys
    /\ gsRes = [err |-> NoErr, value |-> << >>]
    /\ gsPc = "start"

\* one call of getStringAttributeValue(gsBlock, gsKey)
GetString ==
    /\ gsPc = "start"
    /\ gsRes' = getStringAttributeValue(gsBlock, gsKey)
    /\ gsPc' = "done"
    /\ UNCHANGED <<gsBlock, gsKey, escVars, libVars, svcVars, qVars, ikVars, nmVars>>

GsIdle ==
    /\ gsBlock = Block("acl", << >>, << >>, << >>)
    /\ gsKey = "name"
    /\ gsRes = [err |-> NoErr, value |-> << >>]
    /\ gsPc = "idle"

---------------------------------------------------------------------------
(* Names and descriptors (props.go) *)

UpperLetters == <<"A", "B", "C", "D", "E", "F", "G", "H", "I", "J", "K", "L", "M",
                  "N", "O", "P", "Q", "R", "S", "T", "U", "V", "W", "X", "Y", "Z">>
LowerLetters == <<"a", "b", "c", "d", "e", "f", "g", "h", "i", "j", "k", "l", "m",
                  "n", "o", "p", "q", "r", "s", "t", "u", "v", "w", "x", "y", "z">>
Digits == {"0", "1", "2", "3", "4", "5", "6", "7", "8", "9"}

Range(seq) == {seq[i] : i \in 1..Len(seq)}

\* strings.ToLower, one character
ToLowerChar(c) ==
    IF c \in Range(UpperLetters)
    THEN LowerLetters[CHOOSE i \in 1..Len(UpperLetters) : UpperLetters[i] = c]
    ELSE c

\* normalizeName / normalize: lower case, then ".", "\n", "\t" and " " to "_"
normalizeName(name) ==
    LET lower == [i \in 1..Len(name) |-> ToLowerChar(name[i])]
        dots == ReplaceAll(lower, <<".">>, <<"_">>)
        nls == ReplaceAll(dots, <<"\n">>, <<"_">>)
        tabs == ReplaceAll(nls, <<"\t">>, <<"_">>)
    IN ReplaceAll(tabs, <<" ">>, <<"_">>)

\* isValidResourceName: ^[A-Za-z_][0-9A-Za-z_.\-\\s]*$ ; in the class, \\ is a
\* backslash and s the letter s
isValidResourceName(name) ==
    LET letters == Range(UpperLetters) \cup Range(LowerLetters)
    IN /\ Len(name) >= 1
       /\ name[1] \in letters \cup {"_"}
       /\ \A i \in 2..Len(name) : name[i] \in Digits \cup letters \cup {"_", ".", "-", "\\"}

\* VCLServiceResourceProp
NewVCLServiceResourceProp(id, name) == [ID |-> id, Name |-> name]

ServiceType == "fastly_service_vcl"

\* VCLServiceResourceProp.GetNormalizedName
ServiceNormalizedName(sp) ==
    LET name == normalizeName(sp.Name)
    IN IF ~isValidResourceName(name) THEN <<"s", "e", "r", "v", "i", "c", "e">> ELSE name

\* The descriptor variants (TFBlockProp implementations).  Every descriptor
\* carries the same fields; a variant leaves those it does not have empty.
NewProp(variant, id, name, endpointType) ==
    [variant |-> variant, id |-> id, name |-> name, endpointType |-> endpointType,
     isJSON |-> FALSE, sens |-> {}]

NewACLResourceProp(id, name) == NewProp("ACL", id, name, "")
NewBackendBlockProp(name) == NewProp("Backend", << >>, name, "")
NewDictionaryResourceProp(id, name) == NewProp("Dictionary", id, name, "")
NewWAFResourceProp(id) == NewProp("WAF", id, <<"w", "a", "f">>, "")
NewDynamicSnippetResourceProp(id, name) == NewProp("DynamicSnippet", id, name, "")
NewSnippetBlockProp(name) == NewProp("Snippet", << >>, name, "")
NewVCLBlockProp(name) == NewProp("VCL", << >>, name, "")
NewLoggingBlockProp(name, endpointType) == NewProp("Logging", << >>, name, endpointType)
NewPlaceholderProp == NewProp("Placeholder", << >>, << >>, "")

\* GetType of the variants terraform import is run on
PropType(prop) ==
    CASE prop.variant = "ACL" -> "fastly_service_acl_entries"
      [] prop.variant = "Dictionary" -> "fastly_service_dictionary_items"
      [] prop.variant = "WAF" -> "fastly_service_waf_configuration"
      [] prop.variant = "DynamicSnippet" -> "fastly_service_dynamic_snippet_content"
      [] OTHER -> prop.variant

\* SensitiveValues[key]: the value and the ok flag of the map lookup
SensHas(prop, key) == \E e \in prop.sens : e.k = key
SensGet(prop, key) == (CHOOSE e \in prop.sens : e.k = key).v
SensSet(prop, key, value) ==
    [prop EXCEPT !.sens = {e \in prop.sens : e.k # key} \cup {[k |-> key, v |-> value]}]

\* the logging block types of the provider (the cases of the endpoint switch);
\* strings.HasPrefix(blockType, "logging_") is true of exactly these block types
LoggingTypes ==
    {"logging_bigquery", "logging_blobstorage", "logging_cloudfiles", "logging_datadog",
     "logging_digitalocean", "logging_elasticsearch", "logging_ftp", "logging_gcs",
     "logging_googlepubsub", "logging_heroku", "logging_honeycomb", "logging_https",
     "logging_kafka", "logging_kinesis", "logging_logentries", "logging_loggly",
     "logging_logshuttle", "logging_newrelic", "logging_openstack", "logging_papertrail",
     "logging_s3", "logging_scalyr", "logging_sftp", "logging_splunk", "logging_sumologic",
     "logging_syslog"}

HasLoggingPrefix(blockType) == blockType \in LoggingTypes

---------------------------------------------------------------------------
(* Classification: ParseVCLServiceResource (generation A) and             *)
(* TFConf.ParseVCLServiceResource (generation B)                           *)

ErrBlockCount == "Number of VCLServiceResourceProp should be 1"
ErrUnexpectedBlock == "Unexpected Terraform block"

\* a check that looks at the first block only and accepts any number of
\* blocks after it
CheckFirstBlockOnly(blocks) ==
    IF Len(blocks) < 1 THEN ErrBlockCount
    ELSE IF blocks[1].type # "resource" \/ blocks[1].labels[1] # ServiceType
         THEN ErrUnexpectedBlock
         ELSE NoErr

\* the check of the top-level blocks, the same in both generations
CheckTopLevel(blocks) ==
    IF Len(blocks) # 1 THEN ErrBlockCount
    ELSE IF blocks[1].type # "resource" \/ blocks[1].labels[1] # ServiceType
         THEN ErrUnexpectedBlock
         ELSE NoErr

ClsOk(ps) == [err |-> NoErr, props |-> ps]
ClsErr(e) == [err |-> e, props |-> << >>]

\* a case that reads an id attribute and the name
ClassifyIdName(block, idKey, variant) ==
    LET id == getStringAttributeValue(block, idKey)
        name == getStringAttributeValue(block, "name")
    IN IF id.err # NoErr THEN ClsErr(id.err)
       ELSE IF name.err # NoErr THEN ClsErr(name.err)
       ELSE ClsOk(<<NewProp(variant, id.value, name.value, "")>>)

\* a case that reads the name only
ClassifyName(block, variant, endpointType) ==
    LET name == getStringAttributeValue(block, "name")
    IN IF name.err # NoErr THEN ClsErr(name.err)
       ELSE ClsOk(<<NewProp(variant, << >>, name.value, endpointType)>>)

ClassifyWAF(block) ==
    LET id == getStringAttributeValue(block, "waf_id")
    IN IF id.err # NoErr THEN ClsErr(id.err)
       ELSE ClsOk(<<NewWAFResourceProp(id.value)>>)

\* a default case that skips a block that is no logging block
ClassifyDefaultSkipping(block) ==
    IF HasLoggingPrefix(block.type)
    THEN ClassifyName(block, "Logging", block.type)
    ELSE ClsOk(<< >>)

\* generation A, the default case of the switch: a logging block, or a
\* placeholder that keeps the indexes aligned
ClassifyDefaultA(block) ==
    IF HasLoggingPrefix(block.type)
    THEN ClassifyName(block, "Logging", block.type)
    ELSE ClsOk(<<NewPlaceholderProp>>)

\* generation A, one iteration of the loop over the nested blocks
ClassifyBlockA(block) ==
    CASE block.type = "acl" -> ClassifyIdName(block, "acl_id", "ACL")
      [] block.type = "backend" -> ClassifyName(block, "Backend", "")
      [] block.type = "dictionary" -> ClassifyIdName(block, "dictionary_id", "Dictionary")
      [] block.type = "waf" -> ClassifyWAF(block)
      [] block.type = "dynamicsnippet" -> ClassifyIdName(block, "snippet_id", "DynamicSnippet")
      [] block.type = "snippet" -> ClassifyName(block, "Snippet", "")
      [] block.type = "vcl" -> ClassifyName(block, "VCL", "")
      [] OTHER -> ClassifyDefaultA(block)

\* generation B, one iteration: the switch has four cases and no default
ClassifyBlockB(block) ==
    CASE block.type = "acl" -> ClassifyIdName(block, "acl_id", "ACL")
      [] block.type = "dictionary" -> ClassifyIdName(block, "dictionary_id", "Dictionary")
      [] block.type = "waf" -> ClassifyWAF(block)
      [] block.type = "dynamicsnippet" -> ClassifyIdName(block, "snippet_id", "DynamicSnippet")
      [] OTHER -> ClsOk(<< >>)

ClassifyBlock(g, block) ==
    IF g = "A" THEN ClassifyBlockA(block) ELSE ClassifyBlockB(block)

\* the loop over the nested blocks: the first error is returned with no
\* descriptors
RECURSIVE ClassifyFrom(_, _, _, _)
ClassifyFrom(g, nested, i, acc) ==
    IF i > Len(nested) THEN ClsOk(acc)
    ELSE LET r == ClassifyBlock(g, nested[i])
         IN IF r.err # NoErr THEN ClsErr(r.err)
            ELSE ClassifyFrom(g, nested, i + 1, acc \o r.props)

ParseVCLServiceResource(g, blocks) ==
    LET top == CheckTopLevel(blocks)
    IN IF top # NoErr THEN ClsErr(top)
       ELSE ClassifyFrom(g, blocks[1].blocks, 1, << >>)

---------------------------------------------------------------------------
(* The outcome of one per-resource rewrite step, in both generations:     *)
(* the block as the step left it (hclwrite edits the tree in place, so     *)
(* the edits made before an error stay), the error returned, whether the   *)
(* step panicked, the positional descriptor lookups it made and the files  *)
(* it wrote.                                                               *)

StepResult(block, err, panic, lookups, files) ==
    [block |-> block, err |-> err, panic |-> panic, lookups |-> lookups, files |-> files]
StepOk(block) == StepResult(block, NoErr, FALSE, << >>, << >>)
StepErr(block, err) == StepResult(block, err, FALSE, << >>, << >>)
StepPanic(block) == StepResult(block, NoErr, TRUE, << >>, << >>)

ErrExpectedBackend == "Expected *BackendBlockProp"
ErrExpectedLogging == "Expected *LoggingBlockProp"
ErrSensitiveNotFound == "Sensitive value not found"
ErrUnexpectedType == "Unexpected block type"
ErrUnexpectedSubBlock == "Unexpected Terraform block in ACL resource"

\* buildServiceIDRef / getServiceIDReference: <type>.<normalized name>.id
buildServiceIDRef(sp) ==
    Traversal(<<TraverseRoot(<<ServiceType>>), TraverseAttr(ServiceNormalizedName(sp)),
                TraverseAttr(<<"id">>)>>)

\* the traversal rewriteWAFResource builds: <type>.<name>.waf[0].waf_id
WAFIDRef(sp) ==
    Traversal(<<TraverseRoot(<<ServiceType>>), TraverseAttr(ServiceNormalizedName(sp)),
                TraverseAttr(<<"waf">>), TraverseIndex(<<"0">>), TraverseAttr(<<"waf_id">>)>>)

---------------------------------------------------------------------------
(* Generation A: rewriteVCLServiceResource(block, serviceProp, props)      *)

SensEntry(sens, attr, checked) == [sens |-> sens, attr |-> attr, checked |-> checked]

\* the switch on prop.GetEndpointType(): the SensitiveValues key read, the
\* attribute set, and whether the lookup's ok flag is tested
SensTableA(endpointType) ==
    CASE endpointType = "logging_bigquery" ->
            <<SensEntry("bigquery_email", "email", TRUE), SensEntry("bigquery_secret_key", "secret_key", TRUE)>>
      [] endpointType = "logging_blobstorage" -> <<SensEntry("blobstorage_sas_token", "sas_token", TRUE)>>
      [] endpointType = "logging_cloudfiles" -> <<SensEntry("cloudfiles_access_key", "access_key", TRUE)>>
      [] endpointType = "logging_datadog" -> <<SensEntry("datadog_token", "token", TRUE)>>
      [] endpointType = "logging_digitalocean" ->
            <<SensEntry("digitalocean_access_key", "access_key", TRUE),
              SensEntry("digitalocean_secret_key", "secret_key", TRUE)>>
      [] endpointType = "logging_elasticsearch" ->
            <<SensEntry("elasticsearch_password", "password", TRUE),
              SensEntry("elasticsearch_tls_client_key", "tls_client_key", TRUE)>>
      [] endpointType = "logging_ftp" -> <<SensEntry("ftp_password", "password", TRUE)>>
      [] endpointType = "logging_gcs" -> <<SensEntry("gcs_secret_key", "secret_key", TRUE)>>
      [] endpointType = "logging_googlepubsub" -> <<SensEntry("pubsub_secret_key", "secret_key", TRUE)>>
      [] endpointType = "logging_heroku" -> <<SensEntry("heroku_token", "token", TRUE)>>
      [] endpointType = "logging_honeycomb" -> <<SensEntry("honeycomb_token", "token", TRUE)>>
      [] endpointType = "logging_https" -> <<SensEntry("https_tls_client_key", "tls_client_key", TRUE)>>
      [] endpointType = "logging_kafka" ->
            <<SensEntry("kafka_password", "password", TRUE),
              SensEntry("kafka_tls_client_key", "tls_client_key", TRUE)>>
      [] endpointType = "logging_kinesis" ->
            <<SensEntry("kinesis_access_key", "access_key", TRUE),
              SensEntry("kinesis_secret_key", "secret_key", TRUE)>>
      [] endpointType = "logging_loggly" -> <<SensEntry("loggly_token", "token", TRUE)>>
      [] endpointType = "logging_logshuttle" -> <<SensEntry("logshuttle_token", "token", TRUE)>>
      [] endpointType = "logging_newrelic" -> <<SensEntry("newrelic_token", "token", TRUE)>>
      [] endpointType = "logging_openstack" -> <<SensEntry("openstack_access_key", "access_key", TRUE)>>
      [] endpointType = "logging_s3" ->
            <<SensEntry("s3_access_key", "s3_access_key", TRUE),
              SensEntry("s3_secret_key", "s3_secret_key", FALSE)>>
      [] endpointType = "logging_scalyr" -> <<SensEntry("scalyr_token", "token", TRUE)>>
      [] endpointType = "logging_sftp" ->
            <<SensEntry("sftp_password", "password", TRUE), SensEntry("sftp_secret_key", "secret_key", TRUE)>>
      [] endpointType = "logging_splunk" ->
            <<SensEntry("splunk_tls_client_key", "tls_client_key", TRUE),
              SensEntry("splunk_token", "token", TRUE)>>
      [] endpointType = "logging_syslog" -> <<SensEntry("syslog_tls_client_key", "tls_client_key", TRUE)>>
      [] OTHER -> << >>

\* the attributes of one endpoint set one after the other; a missing value
\* whose ok flag is tested ends the step, an untested one reads as ""
RECURSIVE SetSensitiveA(_, _, _, _)
SetSensitiveA(nb, prop, table, i) ==
    IF i > Len(table) THEN StepOk(nb)
    ELSE IF table[i].checked /\ ~SensHas(prop, table[i].sens) THEN StepErr(nb, ErrSensitiveNotFound)
    ELSE LET value == IF SensHas(prop, table[i].sens) THEN SensGet(prop, table[i].sens) ELSE << >>
         IN SetSensitiveA(SetAttribute(nb, table[i].attr, StrLit(value)), prop, table, i + 1)

\* case "backend"
RewriteBackendA(nb, prop) ==
    IF prop.variant # "Backend" THEN StepErr(nb, ErrExpectedBackend)
    ELSE IF ~SensHas(prop, "ssl_client_cert") THEN StepErr(nb, ErrSensitiveNotFound)
    ELSE LET cert == SensGet(prop, "ssl_client_cert")
             nb1 == IF cert # << >> THEN SetAttribute(nb, "ssl_client_cert", StrLit(cert)) ELSE nb
         IN IF ~SensHas(prop, "ssl_client_key") THEN StepErr(nb1, ErrSensitiveNotFound)
            ELSE LET key == SensGet(prop, "ssl_client_key")
                 IN StepOk(IF key # << >> THEN SetAttribute(nb1, "ssl_client_cert", StrLit(key)) ELSE nb1)

\* case "snippet" and case "vcl": content = file("./vcl/<prefix><name>.vcl")
RewriteContentA(nb, prefix) ==
    LET name == getStringAttributeValue(nb, "name")
    IN IF name.err # NoErr THEN StepErr(nb, name.err)
       ELSE StepOk(SetAttribute(nb, "content",
                FileCall(<<".", "/", "v", "c", "l", "/">> \o prefix \o normalizeName(name.value) \o <<".", "v", "c", "l">>)))

\* the default case, a logging block
RewriteLoggingA(nb, prop) ==
    IF prop.variant # "Logging" THEN StepErr(nb, ErrExpectedLogging)
    ELSE LET name == getStringAttributeValue(nb, "name")
         IN IF name.err # NoErr THEN StepErr(nb, name.err)
            ELSE LET ext == IF prop.isJSON THEN <<"j", "s", "o", "n">> ELSE <<"t", "x", "t">>
                     path == <<".", "/", "l", "o", "g", "f", "o", "r", "m", "a", "t", "/">> \o normalizeName(name.value) \o <<".">> \o ext
                     nb1 == SetAttribute(nb, "format", FileCall(path))
                 IN SetSensitiveA(nb1, prop, SensTableA(prop.endpointType), 1)

\* the block types whose case reads props[i]
IndexesProps(blockType) == blockType = "backend" \/ HasLoggingPrefix(blockType)

\* one iteration of the loop over the nested blocks, i counted from 1
RewriteNestedA(nb, i, ps) ==
    CASE nb.type = "acl" -> StepOk(RemoveAttribute(nb, "acl_id"))
      [] nb.type = "dictionary" -> StepOk(RemoveAttribute(nb, "dictionary_id"))
      [] nb.type = "waf" -> StepOk(RemoveAttribute(nb, "waf_id"))
      [] nb.type = "dynamicsnippet" -> StepOk(RemoveAttribute(nb, "snippet_id"))
      [] nb.type = "snippet" -> RewriteContentA(nb, <<"s", "n", "i", "p", "p", "e", "t", "_">>)
      [] nb.type = "vcl" -> RewriteContentA(nb, << >>)
      [] IndexesProps(nb.type) ->
            \* props[i] past the end of the slice is a run-time panic
            IF i > Len(ps) THEN StepPanic(nb)
            ELSE IF nb.type = "backend" THEN RewriteBackendA(nb, ps[i])
            ELSE RewriteLoggingA(nb, ps[i])
      [] OTHER -> StepOk(nb)

\* the positional lookup an iteration makes, if any
LookupsAt(nb, i, ps) ==
    IF IndexesProps(nb.type)
    THEN <<[index |-> i, blockType |-> nb.type, inRange |-> i <= Len(ps),
            variant |-> IF i <= Len(ps) THEN ps[i].variant ELSE "none"]>>
    ELSE << >>

RECURSIVE RewriteNestedFromA(_, _, _, _)
RECURSIVE AfterNestedA(_, _, _, _, _)

\* the rest of the loop, given the result r of iteration i
AfterNestedA(block, i, ps, lookups, r) ==
    IF r.panic \/ r.err # NoErr
    THEN StepResult([block EXCEPT !.blocks[i] = r.block], r.err, r.panic, lookups, << >>)
    ELSE RewriteNestedFromA([block EXCEPT !.blocks[i] = r.block], i + 1, ps, lookups)

RewriteNestedFromA(block, i, ps, lookups) ==
    IF i > Len(block.blocks) THEN StepResult(block, NoErr, FALSE, lookups, << >>)
    ELSE AfterNestedA(block, i, ps, lookups \o LookupsAt(block.blocks[i], i, ps),
                      RewriteNestedA(block.blocks[i], i, ps))

\* a list of read-only attributes that leaves cloned_version out
ReadOnlyRootAttrsWithoutCloned == <<"id", "active_version">>

\* the attributes removed from the root of the service resource
ReadOnlyRootAttrs == <<"id", "active_version", "cloned_version">>

rewriteVCLServiceResourceA(block, ps) ==
    RewriteNestedFromA(RemoveAttributes(block, ReadOnlyRootAttrs), 1, ps, << >>)

---------------------------------------------------------------------------
(* The dependent resources.  Generation A (parse.go 446-516) is generation *)
(* B (parse.go 989-1095) without the ManageAll branch and without the      *)
(* state: manage is FALSE there.                                           *)

\* the loop of rewriteACLResource over the sub-blocks: id is removed from
\* each entry until a block of another type ends the step
RECURSIVE RewriteEntriesFrom(_, _)
RewriteEntriesFrom(block, i) ==
    IF i > Len(block.blocks) THEN StepOk(block)
    ELSE IF block.blocks[i].type # "entry" THEN StepErr(block, ErrUnexpectedSubBlock)
    ELSE RewriteEntriesFrom([block EXCEPT !.blocks[i] = RemoveAttribute(block.blocks[i], "id")], i + 1)

\* a rewrite of the ACL resource that leaves the entries as they are
rewriteACLResourceSkippingEntries(block, sp, manage) ==
    LET b1 == RemoveAttribute(block, "id")
        b2 == IF manage THEN SetAttribute(b1, "manage_entries", BoolLit(<<"true">>)) ELSE b1
    IN StepOk(SetAttribute(b2, "service_id", buildServiceIDRef(sp)))

\* rewriteACLResource: id is removed, manage_entries is set when asked for,
\* service_id becomes the reference to the service, the entries lose their id
rewriteACLResource(block, sp, manage) ==
    LET b1 == RemoveAttribute(block, "id")
        b2 == IF manage THEN SetAttribute(b1, "manage_entries", BoolLit(<<"true">>)) ELSE b1
        b3 == SetAttribute(b2, "service_id", buildServiceIDRef(sp))
    IN RewriteEntriesFrom(b3, 1)

rewriteDictionaryResource(block, sp, manage) ==
    LET b1 == RemoveAttribute(block, "id")
        b2 == IF manage THEN SetAttribute(b1, "manage_items", BoolLit(<<"true">>)) ELSE b1
    IN StepOk(SetAttribute(b2, "service_id", buildServiceIDRef(sp)))

\* a rewrite of the WAF resource that forgets the number attribute
rewriteWAFResourceKeepingNumber(block, sp) ==
    LET b1 == RemoveAttributes(block, <<"active", "cloned_version", "id">>)
    IN StepOk(SetAttribute(b1, "waf_id", WAFIDRef(sp)))

\* rewriteWAFResource: the four read-only attributes are removed, waf_id
\* becomes the reference to the first waf block of the service
rewriteWAFResource(block, sp) ==
    LET b1 == RemoveAttributes(block, <<"active", "cloned_version", "number", "id">>)
    IN StepOk(SetAttribute(b1, "waf_id", WAFIDRef(sp)))

\* generation A: content = file("./vcl/dsnippet_<second label>.vcl")
rewriteDynamicSnippetResourceA(block, sp) ==
    LET b1 == RemoveAttribute(block, "id")
        b2 == SetAttribute(b1, "service_id", buildServiceIDRef(sp))
        path == <<".", "/", "v", "c", "l", "/", "d", "s", "n", "i", "p", "p", "e", "t", "_">> \o normalizeName(block.labels[2]) \o <<".", "v", "c", "l">>
    IN StepOk(SetAttribute(b2, "content", FileCall(path)))

---------------------------------------------------------------------------
(* The outcome of RewriteResources: "ok" with the rewritten blocks (the    *)
(* text f.Bytes() returns), "err" with the error, or "panic".  stepErrs    *)
(* lists the error of every per-resource step that ran.                    *)

RwResult(status, err, doc, stepErrs, lookups, files) ==
    [status |-> status, err |-> err, doc |-> doc, stepErrs |-> stepErrs,
     lookups |-> lookups, files |-> files]

RwNone == RwResult("none", NoErr, << >>, << >>, << >>, << >>)

\* generation A, the switch on the first label
RewriteTopA(block, sp, ps) ==
    CASE block.labels[1] = "fastly_service_vcl" -> rewriteVCLServiceResourceA(block, ps)
      [] block.labels[1] = "fastly_service_waf_configuration" -> rewriteWAFResource(block, sp)
      [] block.labels[1] = "fastly_service_dynamic_snippet_content" -> rewriteDynamicSnippetResourceA(block, sp)
      [] block.labels[1] = "fastly_service_dictionary_items" -> rewriteDictionaryResource(block, sp, FALSE)
      [] block.labels[1] = "fastly_service_acl_entries" -> rewriteACLResource(block, sp, FALSE)
      [] OTHER -> StepOk(block)

\* what RewriteResources does with the error a step returned.  Generation A
\* calls the step without assigning its result and tests the err of parseHCL,
\* which is nil here: the error is dropped.
StepErrorReturnedA(stepErr) == FALSE

\* the top-level blocks with block i as a step left it
BlocksAfterStep(blocks, i, r) == [blocks EXCEPT ![i] = r.block]

\* what the loop has gathered after a step: the errors of the steps so far,
\* their lookups and files, and the error and panic of the last step
AccAfterStep(acc, r) ==
    [stepErrs |-> Append(acc.stepErrs, r.err), lookups |-> acc.lookups \o r.lookups,
     files |-> acc.files \o r.files, err |-> r.err, panic |-> r.panic]

\* generation A, the loop over the top-level blocks
RECURSIVE RewriteResourcesFromA(_, _, _, _, _)
RECURSIVE AfterStepA(_, _, _, _, _)

\* the rest of the loop, given the result r of the step on block i
AfterStepA(blocks, i, sp, ps, r) ==
    IF r.panic THEN RwResult("panic", NoErr, blocks, r.stepErrs, r.lookups, << >>)
    ELSE IF r.err # NoErr /\ StepErrorReturnedA(r.err)
         THEN RwResult("err", r.err, blocks, r.stepErrs, r.lookups, << >>)
    ELSE RewriteResourcesFromA(blocks, i + 1, sp, ps, r)

RewriteResourcesFromA(blocks, i, sp, ps, acc) ==
    IF i > Len(blocks) THEN RwResult("ok", NoErr, blocks, acc.stepErrs, acc.lookups, << >>)
    ELSE IF blocks[i].type # "resource"
         THEN RwResult("err", ErrUnexpectedType, blocks, acc.stepErrs, acc.lookups, << >>)
    ELSE AfterStepA(BlocksAfterStep(blocks, i, RewriteTopA(blocks[i], sp, ps)), i, sp, ps,
                    AccAfterStep(acc, RewriteTopA(blocks[i], sp, ps)))

RewriteResourcesA(blocks, sp, ps) ==
    RewriteResourcesFromA(blocks, 1, sp, ps,
                          [stepErrs |-> << >>, lookups |-> << >>, files |-> << >>,
                           err |-> NoErr, panic |-> FALSE])

---------------------------------------------------------------------------
(* terraform.tfstate and the gojq queries (tfstate.go).  The state is the  *)
(* list under "resources"; a resource has one instance, whose attributes   *)
(* are scalar fields (string, null or bool) and arrays of objects, the     *)
(* nested blocks.                                                          *)

JStr(s) == [kind |-> "str", str |-> s]
JNull == [kind |-> "null", str |-> << >>]
JBool(b) == [kind |-> "bool", str |-> b]
JArr == [kind |-> "arr", str |-> << >>]

Field(k, v) == [k |-> k, v |-> v]
Array(k, entries) == [k |-> k, entries |-> entries]
Resource(type, name, scalars, arrays) ==
    [type |-> type, name |-> name, instance |-> << >>, scalars |-> scalars, arrays |-> arrays]

\* .k of an object given as a list of fields: null when the key is absent
GetField(fields, k) ==
    IF \E i \in 1..Len(fields) : fields[i].k = k
    THEN fields[CHOOSE i \in 1..Len(fields) : fields[i].k = k].v
    ELSE JNull

HasArray(r, k) == \E i \in 1..Len(r.arrays) : r.arrays[i].k = k
GetArray(r, k) == r.arrays[CHOOSE i \in 1..Len(r.arrays) : r.arrays[i].k = k].entries

\* TFState.Bytes / TFState.String: a string as it is, anything else through
\* json.Marshal
Bytes(v) ==
    CASE v.kind = "str" -> v.str
      [] v.kind = "null" -> <<"n", "u", "l", "l">>
      [] v.kind = "bool" -> v.str
      [] OTHER -> <<"[", "]">>

RECURSIVE Flatten(_)
Flatten(seqs) == IF seqs = << >> THEN << >> ELSE Head(seqs) \o Flatten(Tail(seqs))

\* html/template in text context: the characters it replaces by entities
HTMLEscapeChar(c) ==
    CASE c = "&" -> <<"&", "a", "m", "p", ";">>
      [] c = "<" -> <<"&", "l", "t", ";">>
      [] c = ">" -> <<"&", "g", "t", ";">>
      [] c = "'" -> <<"&", "#", "3", "9", ";">>
      [] c = "+" -> <<"&", "#", "4", "3", ";">>
      [] c = "\"" -> <<"&", "#", "3", "4", ";">>
      [] OTHER -> <<c>>

HTMLEscape(s) == Flatten([i \in 1..Len(s) |-> HTMLEscapeChar(s[i])])

QueryParams(resourceName, attributeType, name, query) ==
    [ResourceName |-> resourceName, AttributeType |-> attributeType, Name |-> name, Query |-> query]

ErrNotFoundInState == "is not found in the state"
ErrCannotIterate == "cannot iterate over"

QueryOk(v) == [err |-> NoErr, value |-> v]
QueryErr(e) == [err |-> e, value |-> JNull]

Item(isErr, v) == [isErr |-> isErr, v |-> v]

\* (LastItem: the variant that runs the iterator to its end)
LastItem(items) ==
    IF items = << >> THEN QueryErr(ErrNotFoundInState)
    ELSE IF items[Len(items)].isErr THEN QueryErr(ErrCannotIterate)
    ELSE QueryOk(items[Len(items)].v)

\* TFState.Query: the first value the query emits, its error when that first
\* item is an error, "not found" when it emits nothing
FirstItem(items) ==
    IF items = << >> THEN QueryErr(ErrNotFoundInState)
    ELSE IF items[1].isErr THEN QueryErr(ErrCannotIterate)
    ELSE QueryOk(items[1].v)

\* what  .instances[].attributes.<at>[] | select(.name == "<name>") | .<q>
\* emits for one resource: iterating anything but an array is an error
ServiceItems(r, at, name, q) ==
    IF ~HasArray(r, at) THEN <<Item(TRUE, JNull)>>
    ELSE LET entries == GetArray(r, at)
         IN Flatten([i \in 1..Len(entries) |->
                IF GetField(entries[i], "name") = JStr(name)
                THEN <<Item(FALSE, GetField(entries[i], q))>> ELSE << >>])

\* TFStateWithQueryTemplate.Query with serviceQueryTmpl: the template is
\* executed by html/template, then run over every resource with that name
QueryService(state, p) ==
    LET rn == HTMLEscape(p.ResourceName)
        n == HTMLEscape(p.Name)
    IN FirstItem(Flatten([i \in 1..Len(state) |->
            IF state[i].name = rn THEN ServiceItems(state[i], p.AttributeType, n, p.Query)
            ELSE << >>]))

\* TFStateWithQueryTemplate.Query with dsnippetQueryTmpl
QueryDSnippet(state, p) ==
    LET rn == HTMLEscape(p.ResourceName)
    IN FirstItem(Flatten([i \in 1..Len(state) |->
            IF state[i].name = rn THEN <<Item(FALSE, GetField(state[i].scalars, "content"))>>
            ELSE << >>]))

\* object | .k = v : the value of an existing key is replaced, a new key is
\* added
SetField(fields, k, v) ==
    IF \E i \in 1..Len(fields) : fields[i].k = k
    THEN [i \in 1..Len(fields) |-> IF fields[i].k = k THEN Field(k, v) ELSE fields[i]]
    ELSE Append(fields, Field(k, v))

\* (.resources[] | select(.type == <one of types>) | .instances[].attributes.<k>) |= true
\* the query emits the whole state once, updated; TFState.Query wraps it
SetAttrTrue(state, types, k) ==
    [i \in 1..Len(state) |->
        IF state[i].type \in types
        THEN [state[i] EXCEPT !.scalars = SetField(@, k, JBool(<<"true">>))]
        ELSE state[i]]

\* (SetActivateAttrOfService: the query without the second type)
SetActivateAttrOfService(state) == SetAttrTrue(state, {"fastly_service_vcl"}, "activate")

\* setActivateQuery
SetActivateAttr(state) ==
    SetAttrTrue(state, {"fastly_service_vcl", "fastly_service_waf_configuration"}, "activate")

\* setManageSnippetsQuery, setManageItemsQuery, setManageEntriesQuery
SetManageSnippetsAttr(state) ==
    SetAttrTrue(state, {"fastly_service_dynamic_snippet_content"}, "manage_snippets")

\* the items query selecting the type of the entries query
SetManageItemsAttrOfEntries(state) ==
    SetAttrTrue(state, {"fastly_service_acl_entries"}, "manage_items")
SetManageItemsAttr(state) ==
    SetAttrTrue(state, {"fastly_service_dictionary_items"}, "manage_items")

SetManageEntriesAttr(state) ==
    SetAttrTrue(state, {"fastly_service_acl_entries"}, "manage_entries")

\* SetManageAttrs: entries, then items, then snippets
SetManageAttrs(state) == SetManageSnippetsAttr(SetManageItemsAttr(SetManageEntriesAttr(state)))

\* (SetIndexKeyByName: the query without select(.type == ...))
SetIndexKeyByName(state, resourceType, resourceName, name) ==
    [i \in 1..Len(state) |->
        IF state[i].name = HTMLEscape(resourceName)
        THEN [state[i] EXCEPT !.instance = SetField(@, "index_key", JStr(HTMLEscape(name)))]
        ELSE state[i]]

\* TFStateWithIndexKeyQueryTemplate.Query with SetIndexKeyQueryTmpl: the
\* template is executed by html/template; the instances of the resources
\* of this type and name gain index_key
SetIndexKey(state, resourceType, resourceName, name) ==
    [i \in 1..Len(state) |->
        IF state[i].type = resourceType /\ state[i].name = HTMLEscape(resourceName)
        THEN [state[i] EXCEPT !.instance = SetField(@, "index_key", JStr(HTMLEscape(name)))]
        ELSE state[i]]

\* the loop of importService over the descriptors (part_007 201-219)
RECURSIVE SetIndexKeysFrom(_, _, _)
SetIndexKeysFrom(state, ps, i) ==
    IF i > Len(ps) THEN state
    ELSE IF ps[i].variant \in {"ACL", "Dictionary", "DynamicSnippet"}
         THEN SetIndexKeysFrom(SetIndexKey(state, PropType(ps[i]), normalizeName(ps[i].name), ps[i].name),
                               ps, i + 1)
    ELSE SetIndexKeysFrom(state, ps, i + 1)

\* the state before importService has patched it
NotPatched == [done |-> FALSE, activated |-> << >>, value |-> << >>]

\* json.Valid of the log formats the model uses: the JSON documents among
\* them are an object, a number and the literal null
JSONTexts == {<<"{", "}">>, <<"1">>, <<"n", "u", "l", "l">>}
jsonValid(text) == text \in JSONTexts

\* saveFile: the file <workingDir>/<fileType>/<name> with this content
File(fileType, name, content) == [fileType |-> fileType, name |-> name, content |-> content]

---------------------------------------------------------------------------
(* Generation B: rewriteVCLServiceResource(block, serviceProp, s, c)       *)

StepFiles(block, err, panic, files) == StepResult(block, err, panic, << >>, files)

\* the switch on blockType: the state fields copied into a logging block
SensKeysB(blockType) ==
    CASE blockType = "logging_bigquery" -> <<"email", "secret_key">>
      [] blockType = "logging_blobstorage" -> <<"sas_token">>
      [] blockType = "logging_cloudfiles" -> <<"access_key">>
      [] blockType = "logging_datadog" -> <<"token">>
      [] blockType = "logging_digitalocean" -> <<"access_key", "secret_key">>
      [] blockType = "logging_elasticsearch" -> <<"password", "tls_client_key">>
      [] blockType = "logging_ftp" -> <<"password">>
      [] blockType = "logging_gcs" -> <<"secret_key">>
      [] blockType = "logging_googlepubsub" -> <<"secret_key">>
      [] blockType = "logging_heroku" -> <<"token">>
      [] blockType = "logging_honeycomb" -> <<"token">>
      [] blockType = "logging_https" -> <<"tls_client_key">>
      [] blockType = "logging_kafka" -> <<"password", "tls_client_key">>
      [] blockType = "logging_kinesis" -> <<"access_key", "secret_key">>
      [] blockType = "logging_loggly" -> <<"token">>
      [] blockType = "logging_logshuttle" -> <<"token">>
      [] blockType = "logging_newrelic" -> <<"token">>
      [] blockType = "logging_openstack" -> <<"access_key">>
      [] blockType = "logging_s3" -> <<"s3_access_key", "s3_secret_key">>
      [] blockType = "logging_scalyr" -> <<"token">>
      [] blockType = "logging_sftp" -> <<"password", "secret_key">>
      [] blockType = "logging_splunk" -> <<"tls_client_key", "token">>
      [] blockType = "logging_syslog" -> <<"tls_client_key">>
      [] OTHER -> << >>

\* the loop over keys: a failed query ends the step; setEmpty tells whether
\* an empty value is written (logging) or skipped (backend)
RECURSIVE SetFromStateB(_, _, _, _, _, _, _, _)
RECURSIVE SetQueriedB(_, _, _, _, _, _, _, _, _)

\* the body of the loop, given the result v of the query for keys[i]
SetQueriedB(nb, state, sp, name, keys, i, setEmpty, files, v) ==
    IF v.err # NoErr THEN StepFiles(nb, v.err, FALSE, files)
    ELSE SetFromStateB(IF setEmpty \/ Bytes(v.value) # << >>
                       THEN SetAttribute(nb, keys[i], StrLit(Bytes(v.value))) ELSE nb,
                       state, sp, name, keys, i + 1, setEmpty, files)

SetFromStateB(nb, state, sp, name, keys, i, setEmpty, files) ==
    IF i > Len(keys) THEN StepFiles(nb, NoErr, FALSE, files)
    ELSE SetQueriedB(nb, state, sp, name, keys, i, setEmpty, files,
                     QueryService(state, QueryParams(ServiceNormalizedName(sp), nb.type, name, keys[i])))

\* case "backend"
RewriteBackendB(nb, state, sp) ==
    LET name == getStringAttributeValue(nb, "name")
    IN IF name.err # NoErr THEN StepErr(nb, name.err)
       ELSE SetFromStateB(nb, state, sp, name.value, <<"ssl_client_cert", "ssl_client_key">>,
                          1, FALSE, << >>)

\* case "request_setting", given the result v of the query for xff
SetBlankXff(nb, v) ==
    IF v.err # NoErr THEN StepErr(nb, v.err)
    ELSE IF Bytes(v.value) = << >> THEN StepOk(SetAttribute(nb, "xff", StrLit(<< >>)))
    ELSE StepOk(nb)

\* case "request_setting"
RewriteRequestSettingB(nb, state, sp) ==
    LET name == getStringAttributeValue(nb, "name")
    IN IF name.err # NoErr THEN StepErr(nb, name.err)
       ELSE SetBlankXff(nb, QueryService(state,
                QueryParams(ServiceNormalizedName(sp), nb.type, name.value, "xff")))

\* (SaveContentBWithoutFile: the variant that sets the attribute and saves
\* nothing)
\* case "response_object", "snippet" and "vcl": the content of the state is
\* saved as <fileType>/<prefix><normalized name><ext>, the attribute becomes
\* file("<dir><that name>")
SaveContentBWithoutFile(nb, fileType, dir, filename, v) ==
    IF v.err # NoErr THEN StepErr(nb, v.err)
    ELSE StepFiles(SetAttribute(nb, "content", FileCall(dir \o filename)), NoErr, FALSE, << >>)

SaveContentB(nb, fileType, dir, filename, v) ==
    IF v.err # NoErr THEN StepErr(nb, v.err)
    ELSE StepFiles(SetAttribute(nb, "content", FileCall(dir \o filename)), NoErr, FALSE,
                   <<File(fileType, filename, Bytes(v.value))>>)

RewriteContentB(nb, state, sp, fileType, dir, prefix, ext) ==
    LET name == getStringAttributeValue(nb, "name")
    IN IF name.err # NoErr THEN StepErr(nb, name.err)
       ELSE SaveContentB(nb, fileType, dir, prefix \o normalizeName(name.value) \o ext,
                         QueryService(state,
                            QueryParams(ServiceNormalizedName(sp), nb.type, name.value, "content")))

\* the default case, a logging block.  The error of the format query is not
\* tested: format is a nil *TFState when it failed, and format.Bytes()
\* dereferences it.
SaveLogFormatB(nb, state, sp, name, filename, text) ==
    SetFromStateB(SetAttribute(nb, "format", FileCall(<<".", "/", "l", "o", "g", "f", "o", "r", "m", "a", "t", "/">> \o filename)),
                  state, sp, name, SensKeysB(nb.type), 1, TRUE,
                  <<File("logformat", filename, text)>>)

\* (LogFormatBAlwaysTxt: the variant that does not look at the format)
LogFormatBAlwaysTxt(nb, state, sp, name, normalized, format) ==
    IF format.err # NoErr THEN StepPanic(nb)
    ELSE SaveLogFormatB(nb, state, sp, name, normalized \o <<".", "t", "x", "t">>, Bytes(format.value))

\* the extension is .json when json.Valid accepts the format of the state
LogFormatB(nb, state, sp, name, normalized, format) ==
    IF format.err # NoErr THEN StepPanic(nb)
    ELSE SaveLogFormatB(nb, state, sp, name,
                        normalized \o <<".">>
                            \o (IF jsonValid(Bytes(format.value)) THEN <<"j", "s", "o", "n">> ELSE <<"t", "x", "t">>),
                        Bytes(format.value))

RewriteLoggingB(nb, state, sp) ==
    LET name == getStringAttributeValue(nb, "name")
    IN IF name.err # NoErr THEN StepErr(nb, name.err)
       ELSE LogFormatB(nb, state, sp, name.value, normalizeName(name.value),
                       QueryService(state,
                          QueryParams(ServiceNormalizedName(sp), nb.type, name.value, "format")))

\* one iteration of the loop over the nested blocks
RewriteNestedB(nb, state, sp) ==
    CASE nb.type = "acl" -> StepOk(RemoveAttribute(nb, "acl_id"))
      [] nb.type = "dictionary" -> StepOk(RemoveAttribute(nb, "dictionary_id"))
      [] nb.type = "waf" -> StepOk(RemoveAttribute(nb, "waf_id"))
      [] nb.type = "dynamicsnippet" -> StepOk(RemoveAttribute(nb, "snippet_id"))
      [] nb.type = "backend" -> RewriteBackendB(nb, state, sp)
      [] nb.type = "request_setting" -> RewriteRequestSettingB(nb, state, sp)
      [] nb.type = "response_object" -> RewriteContentB(nb, state, sp, "content", <<".", "/", "c", "o", "n", "t", "e", "n", "t", "/">>, << >>, <<".", "t", "x", "t">>)
      [] nb.type = "snippet" -> RewriteContentB(nb, state, sp, "vcl", <<".", "/", "v", "c", "l", "/">>, <<"s", "n", "i", "p", "p", "e", "t", "_">>, <<".", "v", "c", "l">>)
      [] nb.type = "vcl" -> RewriteContentB(nb, state, sp, "vcl", <<".", "/", "v", "c", "l", "/">>, << >>, <<".", "v", "c", "l">>)
      [] HasLoggingPrefix(nb.type) -> RewriteLoggingB(nb, state, sp)
      [] OTHER -> StepOk(nb)

RECURSIVE RewriteNestedFromB(_, _, _, _, _)
RECURSIVE AfterNestedB(_, _, _, _)

\* the result of iteration i put into the service block, after the files
\* of the iterations before it
WithNested(block, i, files, r) ==
    [r EXCEPT !.block = [block EXCEPT !.blocks[i] = r.block], !.files = files \o r.files]

\* the rest of the loop, given the service block, error, panic and files
\* after iteration i
AfterNestedB(i, state, sp, r) ==
    IF r.panic \/ r.err # NoErr THEN r
    ELSE RewriteNestedFromB(r.block, i + 1, state, sp, r.files)

RewriteNestedFromB(block, i, state, sp, files) ==
    IF i > Len(block.blocks) THEN StepFiles(block, NoErr, FALSE, files)
    ELSE AfterNestedB(i, state, sp,
                      WithNested(block, i, files, RewriteNestedB(block.blocks[i], state, sp)))

\* the comment rule: an absent comment is set to "", an attribute that is
\* there but yields no string ends the step
SetBlankComment(block) ==
    LET comment == getStringAttributeValue(block, "comment")
    IN IF comment.err = NoErr THEN StepOk(block)
       ELSE IF comment.err # ErrAttrNotFound THEN StepErr(block, comment.err)
       ELSE StepOk(SetAttribute(block, "comment", StrLit(<< >>)))

\* the loop over the nested blocks runs when the comment rule returned no
\* error
NestedAfterComment(c, sp, state) ==
    IF c.err # NoErr THEN c
    ELSE RewriteNestedFromB(c.block, 1, state, sp, << >>)

rewriteVCLServiceResourceB(block, sp, state) ==
    NestedAfterComment(SetBlankComment(RemoveAttributes(block, ReadOnlyRootAttrs)), sp, state)

\* if c.ManageAll: the manage_* attribute of the resource is set to true
SetManage(block, manage, key) ==
    IF manage THEN SetAttribute(block, key, BoolLit(<<"true">>)) ELSE block

\* generation B: the content of the state is saved as vcl/dsnippet_<name>.vcl
rewriteDynamicSnippetResourceB(block, sp, state, manage) ==
    SaveContentB(SetAttribute(SetManage(RemoveAttribute(block, "id"), manage, "manage_snippets"),
                              "service_id", buildServiceIDRef(sp)),
                 "vcl", <<".", "/", "v", "c", "l", "/">>, <<"d", "s", "n", "i", "p", "p", "e", "t", "_">> \o normalizeName(block.labels[2]) \o <<".", "v", "c", "l">>,
                 QueryDSnippet(state, QueryParams(block.labels[2], "", << >>, "")))

\* generation B, the switch on the first label
RewriteTopB(block, sp, state, manage) ==
    CASE block.labels[1] = "fastly_service_vcl" -> rewriteVCLServiceResourceB(block, sp, state)
      [] block.labels[1] = "fastly_service_waf_configuration" -> rewriteWAFResource(block, sp)
      [] block.labels[1] = "fastly_service_dynamic_snippet_content" ->
            rewriteDynamicSnippetResourceB(block, sp, state, manage)
      [] block.labels[1] = "fastly_service_dictionary_items" -> rewriteDictionaryResource(block, sp, manage)
      [] block.labels[1] = "fastly_service_acl_entries" -> rewriteACLResource(block, sp, manage)
      [] OTHER -> StepOk(block)

\* generation B, the loop over the top-level blocks: the error of a step is
\* returned
RECURSIVE RewriteResourcesFromB(_, _, _, _, _, _)
RECURSIVE AfterStepB(_, _, _, _, _, _)

\* the rest of the loop, given the result r of the step on block i
AfterStepB(blocks, i, sp, state, manage, r) ==
    IF r.panic THEN RwResult("panic", NoErr, blocks, r.stepErrs, << >>, r.files)
    ELSE IF r.err # NoErr THEN RwResult("err", r.err, blocks, r.stepErrs, << >>, r.files)
    ELSE RewriteResourcesFromB(blocks, i + 1, sp, state, manage, r)

RewriteResourcesFromB(blocks, i, sp, state, manage, acc) ==
    IF i > Len(blocks) THEN RwResult("ok", NoErr, blocks, acc.stepErrs, << >>, acc.files)
    ELSE IF blocks[i].type # "resource"
         THEN RwResult("err", ErrUnexpectedType, blocks, acc.stepErrs, << >>, acc.files)
    ELSE AfterStepB(BlocksAfterStep(blocks, i, RewriteTopB(blocks[i], sp, state, manage)),
                    i, sp, state, manage,
                    AccAfterStep(acc, RewriteTopB(blocks[i], sp, state, manage)))

RewriteResourcesB(blocks, sp, state, manage) ==
    RewriteResourcesFromB(blocks, 1, sp, state, manage,
                          [stepErrs |-> << >>, lookups |-> << >>, files |-> << >>,
                           err |-> NoErr, panic |-> FALSE])

---------------------------------------------------------------------------
(* The service a run works on.  A nested block of the service is given as  *)
(* terraform show prints it (block) and as terraform.tfstate and the       *)
(* Fastly API hold it (entry): show prints "(sensitive value)" for a       *)
(* secret, which the escaping step has quoted before the text is parsed.   *)

Masked == StrLit(<<"(", "s", "e", "n", "s", "i", "t", "i", "v", "e", " ", "v", "a", "l", "u", "e", ")">>)

Nested(type, attrs, entry) ==
    [block |-> Block(type, << >>, attrs, << >>), entry |-> entry]

NestedCatalogue ==
    {Nested("acl", <<Attr("acl_id", StrLit(<<"i", "1">>)), Attr("name", StrLit(<<"a">>))>>,
            <<Field("acl_id", JStr(<<"i", "1">>)), Field("name", JStr(<<"a">>))>>),
     Nested("backend",
            <<Attr("address", StrLit(<<"h">>)), Attr("name", StrLit(<<"b">>)),
              Attr("ssl_client_cert", Masked), Attr("ssl_client_key", Masked)>>,
            <<Field("address", JStr(<<"h">>)), Field("name", JStr(<<"b">>)),
              Field("ssl_client_cert", JStr(<<"C">>)), Field("ssl_client_key", JStr(<<"K">>))>>),
     Nested("backend",
            <<Attr("address", StrLit(<<"g">>)), Attr("name", StrLit(<<"B", " ", "2">>))>>,
            <<Field("address", JStr(<<"g">>)), Field("name", JStr(<<"B", " ", "2">>)),
              Field("ssl_client_cert", JStr(<< >>)), Field("ssl_client_key", JStr(<< >>))>>),
     Nested("acl", <<Attr("acl_id", StrLit(<<"i", "5">>)), Attr("name", StrLit(<<"s">>))>>,
            <<Field("acl_id", JStr(<<"i", "5">>)), Field("name", JStr(<<"s">>))>>),
     Nested("backend",
            <<Attr("address", StrLit(<<"k">>)), Attr("name", StrLit(<<"u">>))>>,
            <<Field("address", JStr(<<"k">>)), Field("name", JStr(<<"u">>)),
              Field("ssl_client_key", JNull)>>),
     Nested("dictionary", <<Attr("dictionary_id", StrLit(<<"i", "2">>)), Attr("name", StrLit(<<"d">>))>>,
            <<Field("dictionary_id", JStr(<<"i", "2">>)), Field("name", JStr(<<"d">>))>>),
     Nested("dictionary", <<Attr("dictionary_id", StrLit(<<"i", "6">>)), Attr("name", StrLit(<<"s", "e", "r", "v", "i", "c", "e">>))>>,
            <<Field("dictionary_id", JStr(<<"i", "6">>)), Field("name", JStr(<<"s", "e", "r", "v", "i", "c", "e">>))>>),
     Nested("waf", <<Attr("response_object", StrLit(<<"o">>)), Attr("waf_id", StrLit(<<"i", "3">>))>>,
            <<Field("response_object", JStr(<<"o">>)), Field("waf_id", JStr(<<"i", "3">>))>>),
     Nested("dynamicsnippet", <<Attr("name", StrLit(<<"s">>)), Attr("snippet_id", StrLit(<<"i", "4">>))>>,
            <<Field("name", JStr(<<"s">>)), Field("snippet_id", JStr(<<"i", "4">>))>>),
     Nested("snippet", <<Attr("content", StrLit(<<"x">>)), Attr("name", StrLit(<<"n">>))>>,
            <<Field("content", JStr(<<"x">>)), Field("name", JStr(<<"n">>))>>),
     Nested("snippet", <<Attr("content", StrLit(<<"X">>)), Attr("name", StrLit(<<"N">>))>>,
            <<Field("content", JStr(<<"X">>)), Field("name", JStr(<<"N">>))>>),
     Nested("vcl", <<Attr("content", StrLit(<<"y">>)), Attr("main", BoolLit(<<"true">>)),
                     Attr("name", StrLit(<<"m">>))>>,
            <<Field("content", JStr(<<"y">>)), Field("main", JBool(<<"true">>)),
              Field("name", JStr(<<"m">>))>>),
     Nested("logging_s3",
            <<Attr("format", StrLit(<<"{", "}">>)), Attr("name", StrLit(<<"l">>)),
              Attr("s3_access_key", Masked), Attr("s3_secret_key", Masked)>>,
            <<Field("format", JStr(<<"{", "}">>)), Field("name", JStr(<<"l">>)),
              Field("s3_access_key", JStr(<<"A">>)), Field("s3_secret_key", JStr(<<"S">>))>>),
     Nested("logging_syslog",
            <<Attr("format", StrLit(<<"f">>)), Attr("name", StrLit(<<"p", "&", "q">>)),
              Attr("tls_client_key", Masked)>>,
            <<Field("format", JStr(<<"f">>)), Field("name", JStr(<<"p", "&", "q">>)),
              Field("tls_client_key", JStr(<<"T">>))>>),
     Nested("logging_syslog",
            <<Attr("format", StrLit(<<"f">>)), Attr("name", StrLit(<<"t">>)),
              Attr("tls_client_key", Masked)>>,
            <<Field("format", JStr(<<"f">>)), Field("name", JStr(<<"t">>)),
              Field("tls_client_key", JStr(<<"T">>))>>),
     Nested("request_setting", <<Attr("name", StrLit(<<"r">>))>>,
            <<Field("name", JStr(<<"r">>)), Field("xff", JStr(<< >>))>>),
     Nested("request_setting", <<Attr("name", StrLit(<<"R">>))>>,
            <<Field("name", JStr(<<"R">>)), Field("xff", JNull)>>),
     Nested("response_object", <<Attr("content", StrLit(<<"z">>)), Attr("name", StrLit(<<"o">>))>>,
            <<Field("content", JStr(<<"z">>)), Field("name", JStr(<<"o">>))>>),
     Nested("header", <<Attr("name", StrLit(<<"e">>)), Attr("source", StrLit(<<"%", "%", "{">>))>>,
            <<Field("name", JStr(<<"e">>)), Field("source", JStr(<<"%", "{">>))>>)}

\* the lists of up to n distinct nested blocks
RECURSIVE NestedLists(_)
NestedLists(n) ==
    IF n = 0 THEN {<< >>}
    ELSE LET shorter == NestedLists(n - 1)
         IN shorter \cup
            {Append(l, c) : l \in {u \in shorter : Len(u) = n - 1},
                            c \in NestedCatalogue} 

Distinct(l) == \A i, j \in 1..Len(l) : l[i] = l[j] => i = j

\* the block types of the provider schema that the model's services use
SchemaBlockTypes ==
    <<"acl", "backend", "dictionary", "waf", "dynamicsnippet", "snippet", "vcl", "logging_s3",
      "logging_syslog", "request_setting", "response_object", "header">>

ServiceID == <<"i", "0">>

\* the service comments: none, or one that is set
Comments == {<< >>, <<"c">>}

\* the service resource as terraform show prints it after terraform import
ServiceBlock(name, comment, items) ==
    Block("resource", <<ServiceType, name>>,
          <<Attr("active_version", NumberLit(<<"1">>)), Attr("cloned_version", NumberLit(<<"1">>))>>
          \o (IF comment = << >> THEN << >> ELSE <<Attr("comment", StrLit(comment))>>)
          \o <<Attr("id", StrLit(ServiceID)), Attr("name", StrLit(<<"w">>))>>,
          [i \in 1..Len(items) |-> items[i].block])

\* the service resource in terraform.tfstate: every block type of the schema
\* is an array, empty when the service has no such block
ServiceResource(name, comment, items) ==
    Resource(ServiceType, name,
             <<Field("active_version", JStr(<<"1">>)), Field("cloned_version", JStr(<<"1">>)),
               Field("comment", JStr(comment)), Field("id", JStr(ServiceID)),
               Field("name", JStr(<<"w">>))>>,
             [t \in 1..Len(SchemaBlockTypes) |->
                Array(SchemaBlockTypes[t],
                      LET mine == SelectSeq(items, LAMBDA c : c.block.type = SchemaBlockTypes[t])
                      IN [i \in 1..Len(mine) |-> mine[i].entry])])

\* a resource of another provider and a data source, which terraform show
\* prints when the state of the working directory holds them
OtherResourceBlock == Block("resource", <<"null_resource", <<"u">>>>, <<Attr("id", StrLit(<<"i", "9">>))>>, << >>)
DataBlock == Block("data", <<"fastly_ip_ranges", <<"u">>>>, <<Attr("id", StrLit(<<"i", "8">>))>>, << >>)

\* the first dumps that are not one service resource: nothing was imported,
\* another resource or a data source is all there is, or the state of the
\* working directory holds a second resource
MalformedDumps ==
    {<< >>, <<OtherResourceBlock>>, <<DataBlock>>,
     <<ServiceBlock(<<"s", "e", "r", "v", "i", "c", "e">>, << >>, << >>), OtherResourceBlock>>,
     <<OtherResourceBlock, ServiceBlock(<<"s", "e", "r", "v", "i", "c", "e">>, << >>, << >>)>>}

\* the descriptor of the service: importService names it "service"
serviceProp == NewVCLServiceResourceProp(ServiceID, <<"s", "e", "r", "v", "i", "c", "e">>)

\* the variants terraform import is run on
IsDependent(prop) == prop.variant \in {"ACL", "Dictionary", "WAF", "DynamicSnippet"}

\* the resource terraform import adds for a descriptor, as terraform show
\* prints it
DependentBlock(prop) ==
    LET labels == <<PropType(prop), normalizeName(prop.name)>>
    IN CASE prop.variant = "ACL" ->
               Block("resource", labels,
                     <<Attr("acl_id", StrLit(prop.id)), Attr("id", StrLit(<<"i", "0", "/">> \o prop.id)),
                       Attr("service_id", StrLit(ServiceID))>>,
                     <<Block("entry", << >>, <<Attr("id", StrLit(<<"e", "1">>)), Attr("ip", StrLit(<<":", ":", "1">>))>>, << >>)>>)
         [] prop.variant = "Dictionary" ->
               Block("resource", labels,
                     <<Attr("dictionary_id", StrLit(prop.id)), Attr("id", StrLit(<<"i", "0", "/">> \o prop.id)),
                       Attr("service_id", StrLit(ServiceID))>>, << >>)
         [] prop.variant = "WAF" ->
               Block("resource", labels,
                     <<Attr("active", BoolLit(<<"true">>)), Attr("cloned_version", NumberLit(<<"1">>)),
                       Attr("http_violation_score_threshold", NumberLit(<<"1">>)),
                       Attr("id", StrLit(prop.id)), Attr("number", NumberLit(<<"1">>)),
                       Attr("waf_id", StrLit(prop.id))>>, << >>)
         [] OTHER ->
               Block("resource", labels,
                     <<Attr("content", StrLit(<<"v">>)), Attr("id", StrLit(<<"i", "0", "/">> \o prop.id)),
                       Attr("service_id", StrLit(ServiceID)), Attr("snippet_id", StrLit(prop.id))>>, << >>)

\* the content the Fastly API returns for a dynamic snippet
DynamicSnippetContent == <<"v">>

\* the same resource in terraform.tfstate
DependentResource(prop) ==
    Resource(PropType(prop), normalizeName(prop.name),
             IF prop.variant = "DynamicSnippet"
             THEN <<Field("content", JStr(DynamicSnippetContent)), Field("id", JStr(<<"i", "0", "/">> \o prop.id))>>
             ELSE <<Field("id", JStr(<<"i", "0", "/">> \o prop.id))>>,
             << >>)

\* terraform show and terraform.tfstate list the resources by address: the
\* resources of the types before fastly_service_vcl in the order of their
\* types (fastly_service_acl_entries, fastly_service_dictionary_items,
\* fastly_service_dynamic_snippet_content), the service, the WAF
BeforeService(deps) ==
    SelectSeq(deps, LAMBDA p : p.variant = "ACL")
        \o SelectSeq(deps, LAMBDA p : p.variant = "Dictionary")
        \o SelectSeq(deps, LAMBDA p : p.variant = "DynamicSnippet")

AfterService(deps) == SelectSeq(deps, LAMBDA p : p.variant = "WAF")

SecondDump(service, deps, extra) ==
    LET before == BeforeService(deps)
        after == AfterService(deps)
    IN [i \in 1..Len(before) |-> DependentBlock(before[i])] \o <<service>>
       \o [i \in 1..Len(after) |-> DependentBlock(after[i])] \o extra

SecondState(service, deps) ==
    LET before == BeforeService(deps)
        after == AfterService(deps)
    IN [i \in 1..Len(before) |-> DependentResource(before[i])] \o <<service>>
       \o [i \in 1..Len(after) |-> DependentResource(after[i])]

\* what the Fastly API returns for a field: "" when the object has none
APIString(v) == IF v.kind = "str" THEN v.str ELSE << >>

\* the object of the service the API returns for a descriptor, by type and
\* name
APIObject(service, blockType, name) ==
    LET entries == GetArray(service, blockType)
    IN entries[CHOOSE i \in 1..Len(entries) : GetField(entries[i], "name") = JStr(name)]

RECURSIVE FillSensitive(_, _, _, _)
FillSensitive(prop, object, table, i) ==
    IF i > Len(table) THEN prop
    ELSE FillSensitive(SensSet(prop, table[i].sens, APIString(GetField(object, table[i].attr))),
                       object, table, i + 1)

\* fetchBackend
fetchBackend(prop, service) ==
    FillSensitive(prop, APIObject(service, "backend", prop.name),
                  <<SensEntry("ssl_client_cert", "ssl_client_cert", TRUE),
                    SensEntry("ssl_client_key", "ssl_client_key", TRUE)>>, 1)

\* fetchLogendpoint: the secrets of the endpoint, and IsJSON from the format
fetchLogendpoint(prop, service) ==
    LET object == APIObject(service, prop.endpointType, prop.name)
        filled == FillSensitive(prop, object, SensTableA(prop.endpointType), 1)
    IN [filled EXCEPT !.isJSON = jsonValid(APIString(GetField(object, "format")))]

\* FetchAssetsViaFastlyAPI: the descriptors as the loop leaves them
FetchAssetsViaFastlyAPI(ps, service) ==
    [i \in 1..Len(ps) |->
        CASE ps[i].variant = "Backend" -> fetchBackend(ps[i], service)
          [] ps[i].variant = "Logging" -> fetchLogendpoint(ps[i], service)
          [] OTHER -> ps[i]]

\* fetchCustomVCL, fetchVCLSnippet, fetchDynamicSnippet and fetchLogendpoint:
\* the file each writes, vcl/<prefix><normalized name>.vcl or
\* logformat/<normalized name>.txt or .json
FetchedFile(prop, service) ==
    CASE prop.variant = "VCL" ->
            <<File("vcl", normalizeName(prop.name) \o <<".", "v", "c", "l">>,
                   APIString(GetField(APIObject(service, "vcl", prop.name), "content")))>>
      [] prop.variant = "Snippet" ->
            <<File("vcl", <<"s", "n", "i", "p", "p", "e", "t", "_">> \o normalizeName(prop.name) \o <<".", "v", "c", "l">>,
                   APIString(GetField(APIObject(service, "snippet", prop.name), "content")))>>
      [] prop.variant = "DynamicSnippet" ->
            <<File("vcl", <<"d", "s", "n", "i", "p", "p", "e", "t", "_">> \o normalizeName(prop.name) \o <<".", "v", "c", "l">>, DynamicSnippetContent)>>
      [] prop.variant = "Logging" ->
            LET format == APIString(GetField(APIObject(service, prop.endpointType, prop.name), "format"))
            IN <<File("logformat",
                      normalizeName(prop.name) \o (IF jsonValid(format) THEN <<".", "j", "s", "o", "n">> ELSE <<".", "t", "x", "t">>),
                      format)>>
      [] OTHER -> << >>

\* the files the loop of FetchAssetsViaFastlyAPI writes, in its order
FetchedFiles(ps, service) == Flatten([i \in 1..Len(ps) |-> FetchedFile(ps[i], service)])

---------------------------------------------------------------------------
(* TFState.Query (tfstate.go 85-102) called once *)

\* a JSON array: its elements are kept in the field a string keeps its text in
JArray(elems) == [kind |-> "arr", str |-> elems]

QScalars == {JNull, JStr(<<"a">>), JBool(<<"true">>)}

\* the arrays of up to n scalars
RECURSIVE QArrays(_)
QArrays(n) ==
    IF n = 0 THEN {<< >>}
    ELSE QArrays(n - 1) \cup {Append(l, v) : l \in {u \in QArrays(n - 1) : Len(u) = n - 1},
                                              v \in QScalars}

\* the values Query is run on
QValues == QScalars \cup {JArray(l) : l \in QArrays(MaxElems)}

\* the queries: identity, iteration, iteration that swallows its error, the
\* empty stream, and a text gojq.Parse rejects
QQueries == {".", ".[]", ".[]?", "empty", ".["}

ErrParse == "unexpected token"

\* gojq.Parse
Parses(query) == query # ".["

\* jq.Run(s.Value): the items the iterator yields, a value or an error each
Emit(query, value) ==
    CASE query = "." -> <<Item(FALSE, value)>>
      [] query = ".[]" ->
            IF value.kind = "arr" THEN [i \in 1..Len(value.str) |-> Item(FALSE, value.str[i])]
            ELSE <<Item(TRUE, JNull)>>
      [] query = ".[]?" ->
            IF value.kind = "arr" THEN [i \in 1..Len(value.str) |-> Item(FALSE, value.str[i])]
            ELSE << >>
      [] OTHER -> << >>

\* TFState.Query
TFStateQuery(query, value) ==
    IF ~Parses(query) THEN QueryErr(ErrParse) ELSE FirstItem(Emit(query, value))

QInit ==
    /\ qQuery \in QQueries
    /\ qValue \in QValues
    /\ qBefore = qValue
    /\ qRes = QueryOk(JNull)
    /\ qPc = "start"

\* one call of Query: the method and the iterator only read s.Value
Query ==
    /\ qPc = "start"
    /\ qRes' = TFStateQuery(qQuery, qValue)
    /\ qPc' = "done"
    /\ UNCHANGED <<qQuery, qValue, qBefore, escVars, gsVars, libVars, svcVars, ikVars, nmVars>>

QIdle ==
    /\ qQuery = "."
    /\ qValue = JNull
    /\ qBefore = JNull
    /\ qRes = QueryOk(JNull)
    /\ qPc = "idle"

---------------------------------------------------------------------------
(* TFStateWithIndexKeyQueryTemplate.Query (part_003 159-166) called once, *)
(* as the loop of importService calls it (part_007 201-219)                *)

IkTypes == {"fastly_service_acl_entries", "fastly_service_dictionary_items"}

\* the names of the resources of the state
IkResourceNames == {<<"a">>, <<"b">>}

\* the names of the Fastly objects: "A" normalizes to "a", no resource is
\* named after "c"
IkNames == {<<"a">>, <<"A">>, <<"c">>}

IkResources ==
    {Resource(t, n, <<Field("id", JStr(<<"i">>))>>, << >>) : t \in IkTypes, n \in IkResourceNames}

\* the states of up to n resources, no two with the same type and name
RECURSIVE IkStates(_)
IkStates(n) ==
    IF n = 0 THEN {<< >>}
    ELSE IkStates(n - 1)
            \cup {Append(l, r) : l \in {u \in IkStates(n - 1) : Len(u) = n - 1},
                                 r \in IkResources}

\* IndexKeyQueryParams{r.GetType(), r.GetNormalizedName(), r.GetName()}
IndexKeyQueryParams(resourceType, name) ==
    [ResourceType |-> resourceType, ResourceName |-> normalizeName(name), Name |-> name]

IkInit ==
    /\ ikState \in {l \in IkStates(MaxResources) : Distinct(l)}
    /\ ikParams \in {IndexKeyQueryParams(t, n) : t \in IkTypes, n \in IkNames}
    /\ ikRes = << >>
    /\ ikPc = "start"

\* newState, err = newStateWithTmpl.Query(params)
QueryIndexKey ==
    /\ ikPc = "start"
    /\ ikRes' = SetIndexKey(ikState, ikParams.ResourceType, ikParams.ResourceName, ikParams.Name)
    /\ ikPc' = "done"
    /\ UNCHANGED <<ikState, ikParams, escVars, gsVars, libVars, svcVars, qVars, nmVars>>

IkIdle ==
    /\ ikState = << >>
    /\ ikParams = IndexKeyQueryParams("fastly_service_acl_entries", <<"a">>)
    /\ ikRes = << >>
    /\ ikPc = "idle"

---------------------------------------------------------------------------
(* VCLServiceResourceProp.GetNormalizedName (props.go 53-61) called once *)

\* the characters of the names: letters in both cases, a digit, the
\* characters normalizeName replaces, a dash, an underscore, a backslash
\* and a character that is none of these
NameChars == {"M", "y", "s", "2", " ", ".", "-", "_", "\\", "&"}

\* the names of up to n characters
RECURSIVE NamesUpTo(_)
NamesUpTo(n) ==
    IF n = 0 THEN {<< >>}
    ELSE NamesUpTo(n - 1)
            \cup {Append(t, c) : t \in {u \in NamesUpTo(n - 1) : Len(u) = n - 1}, c \in NameChars}

NmInit ==
    /\ nmName \in NamesUpTo(MaxName)
    /\ nmOut = << >>
    /\ nmPc = "start"

\* serviceProp.GetNormalizedName()
GetNormalizedName ==
    /\ nmPc = "start"
    /\ nmOut' = ServiceNormalizedName(NewVCLServiceResourceProp(ServiceID, nmName))
    /\ nmPc' = "done"
    /\ UNCHANGED <<nmName, escVars, gsVars, libVars, svcVars, qVars, ikVars>>

NmIdle ==
    /\ nmName = << >>
    /\ nmOut = << >>
    /\ nmPc = "idle"

---------------------------------------------------------------------------
(* One run of the library: classification of the first dump, generation   *)
(* A's fetch of the assets, the second dump after the dependent resources  *)
(* are imported, RewriteResources, and RewriteResources on its own output. *)

ServiceDumps ==
    {[doc |-> <<ServiceBlock(ServiceNormalizedName(serviceProp), comment, items)>>,
      state |-> <<ServiceResource(ServiceNormalizedName(serviceProp), comment, items)>>] :
        comment \in Comments, items \in {l \in NestedLists(MaxNested) : Distinct(l)}}

FirstDumps ==
    ServiceDumps \cup {[doc |-> d, state |-> << >>] : d \in MalformedDumps}

LibInit ==
    /\ gen \in {"A", "B"}
    /\ manageAll \in (IF gen = "A" THEN {FALSE} ELSE BOOLEAN)
    /\ \E dump \in FirstDumps : doc1 = dump.doc /\ tfstate = dump.state
    /\ clsErr = NoErr
    /\ props = << >>
    /\ fetched = FALSE
    /\ fetchFiles = << >>
    /\ doc2 = << >>
    /\ rw = RwNone
    /\ rw2 = RwNone
    /\ newState = NotPatched
    /\ pc = "start"

LibIdle ==
    /\ gen = "A"
    /\ manageAll = FALSE
    /\ doc1 = << >>
    /\ tfstate = << >>
    /\ clsErr = NoErr
    /\ props = << >>
    /\ fetched = FALSE
    /\ fetchFiles = << >>
    /\ doc2 = << >>
    /\ rw = RwNone
    /\ rw2 = RwNone
    /\ newState = NotPatched
    /\ pc = "idle"

\* ParseVCLServiceResource(doc1)
Classify ==
    /\ pc = "start"
    /\ LET r == ParseVCLServiceResource(gen, doc1)
       IN /\ clsErr' = r.err
          /\ props' = r.props
          /\ pc' = IF r.err = NoErr THEN "classified" ELSE "failed"
    /\ UNCHANGED <<gen, doc1, fetched, fetchFiles, doc2, tfstate, rw, rw2, manageAll, newState, escVars, gsVars, svcVars, qVars, ikVars, nmVars>>

\* generation A: FetchAssetsViaFastlyAPI(props) before the rewrite
Fetch ==
    /\ pc = "classified"
    /\ gen = "A"
    /\ ~fetched
    /\ props' = FetchAssetsViaFastlyAPI(props, tfstate[1])
    /\ fetched' = TRUE
    /\ fetchFiles' = FetchedFiles(props, tfstate[1])
    /\ UNCHANGED <<gen, doc1, clsErr, doc2, tfstate, rw, rw2, manageAll, newState, pc, escVars, gsVars, svcVars, qVars, ikVars, nmVars>>

\* terraform import of the dependent resources, then terraform show: the
\* second dump lists the service as the first dump did, the imported
\* resources, and what else the state of the working directory holds
Show ==
    /\ pc = "classified"
    /\ \E extra \in {<< >>, <<OtherResourceBlock>>, <<DataBlock>>} :
          LET deps == SelectSeq(props, IsDependent)
          IN /\ doc2' = SecondDump(doc1[1], deps, extra)
             /\ tfstate' = SecondState(tfstate[1], deps)
    /\ pc' = "shown"
    /\ UNCHANGED <<gen, doc1, clsErr, props, fetched, fetchFiles, rw, rw2, manageAll, newState, escVars, gsVars, svcVars, qVars, ikVars, nmVars>>

\* LoadTFConf on text RewriteResources returned: the percent sign of every
\* "%{" of the text is doubled again, the quoted sentinel is not matched
ReloadExpr(expr) ==
    [expr EXCEPT !.tokens =
        [i \in 1..Len(expr.tokens) |->
            IF expr.tokens[i].type = "TokenQuotedLit"
            THEN Tok("TokenQuotedLit", ReplaceAll(expr.tokens[i].bytes, <<"%", "{">>, <<"%", "%", "{">>))
            ELSE expr.tokens[i]]]

ReloadAttrs(attrs) == [i \in 1..Len(attrs) |-> Attr(attrs[i].key, ReloadExpr(attrs[i].expr))]

ReloadNested(block) == [block EXCEPT !.attrs = ReloadAttrs(block.attrs)]

ReloadBlock(block) ==
    [block EXCEPT !.attrs = ReloadAttrs(block.attrs),
                  !.blocks = [i \in 1..Len(block.blocks) |-> ReloadNested(block.blocks[i])]]

Reload(doc) == [i \in 1..Len(doc) |-> ReloadBlock(doc[i])]

\* (RewriteResourcesManagingAll: the variant whose result does not follow
\* the configuration it is given)
RewriteResourcesManagingAll(g, doc, ps, state, manage) ==
    IF g = "A" THEN RewriteResourcesA(doc, serviceProp, ps)
    ELSE RewriteResourcesB(doc, serviceProp, state, TRUE)

\* RewriteResources(doc2)
RewriteResources(g, doc, ps, state, manage) ==
    IF g = "A" THEN RewriteResourcesA(doc, serviceProp, ps)
    ELSE RewriteResourcesB(doc, serviceProp, state, manage)

Rewrite ==
    /\ pc = "shown"
    /\ rw' = RewriteResources(gen, doc2, props, tfstate, manageAll)
    /\ pc' = "rewritten"
    /\ UNCHANGED <<gen, doc1, clsErr, props, fetched, fetchFiles, doc2, tfstate, rw2, manageAll, newState, escVars, gsVars, svcVars, qVars, ikVars, nmVars>>

\* generation B: RewriteResources on the text the first run returned, with
\* the same descriptor, state and configuration
Rerun ==
    /\ pc = "rewritten"
    /\ gen = "B"
    /\ rw.status = "ok"
    /\ rw2' = RewriteResourcesB(Reload(rw.doc), serviceProp, tfstate, manageAll)
    /\ pc' = "rerun"
    /\ UNCHANGED <<gen, doc1, clsErr, props, fetched, fetchFiles, doc2, tfstate, rw, manageAll, newState, escVars, gsVars, svcVars, qVars, ikVars, nmVars>>

\* importService after main.tf is written (part_007 183-219): LoadTFState,
\* SetActivateAttr, SetManageAttrs when c.ManageAll, and the index key of
\* every ACL, dictionary and dynamic snippet descriptor
PatchedState(state, ps, manage) ==
    LET activated == SetActivateAttr(state)
        managed == IF manage THEN SetManageAttrs(activated) ELSE activated
    IN SetIndexKeysFrom(managed, ps, 1)

PatchState ==
    /\ pc \in {"rewritten", "rerun"}
    /\ gen = "B"
    /\ rw.status = "ok"
    /\ ~newState.done
    /\ newState' = [done |-> TRUE, activated |-> SetActivateAttr(tfstate),
                     value |-> PatchedState(tfstate, props, manageAll)]
    /\ UNCHANGED <<gen, doc1, clsErr, props, fetched, fetchFiles, doc2, tfstate, rw, rw2, manageAll, pc, escVars, gsVars, svcVars, qVars, ikVars, nmVars>>

---------------------------------------------------------------------------
(* importService: the pipeline of one service, call site by call site.     *)
(* An external call fails when it is in svcFails.  svcErr is the variable  *)
(* err of the function: a call site that does not assign the result of a   *)
(* call leaves err as the previous call site set it.                       *)

ExternalCalls ==
    {"GetServiceDetails", "TerraformInstall", "CreateInitTerraformFiles", "TerraformInit",
     "TerraformVersion", "TerraformImport service", "TerraformShow", "TerraformImport dependent",
     "tempf.Close", "os.Remove", "ShowPlanFileRaw", "OpenFile main.tf", "Write main.tf",
     "FetchAssetsViaFastlyAPI", "OpenFile terraform.tfstate", "Write terraform.tfstate",
     "TerraformRefresh"}

Versions == {"part_007", "part_008"}

\* the descriptor variants classification returns: the method of part_007's
\* library returns the four resource variants, the function of part_008's
\* also block variants (here Backend and Snippet)
PropKinds(ver) ==
    IF ver = "part_007" THEN {"WAF", "ACL", "Dictionary", "DynamicSnippet"}
    ELSE {"WAF", "ACL", "Dictionary", "DynamicSnippet", "Backend", "Snippet"}

RECURSIVE PropLists(_, _)
PropLists(ver, n) ==
    IF n = 0 THEN {<< >>}
    ELSE PropLists(ver, n - 1)
            \cup {Append(l, k) : l \in {m \in PropLists(ver, n - 1) : Len(m) = n - 1},
                                 k \in PropKinds(ver)}

\* (ImportedKindsWithSnippet: a type switch with one more case)
ImportedKindsWithSnippet ==
    {"WAF", "ACL", "Dictionary", "DynamicSnippet", "Snippet"}

\* case *WAFResourceProp, *ACLResourceProp, *DictionaryResourceProp,
\* *DynamicSnippetResourceProp
ImportedKinds == {"WAF", "ACL", "Dictionary", "DynamicSnippet"}

\* the descriptor the loop is at
CurrentProp == svcProps[Len(svcProps) - svcDeps + 1]

Visit(kind, asked, yes, imported) ==
    [kind |-> kind, asked |-> asked, yes |-> yes, imported |-> imported]

\* defer os.Remove(tempf.Name()), run when importService returns
DeferredRemove(temp) ==
    IF temp = "present" /\ "os.Remove" \notin svcFails THEN "removed" ELSE temp

SvcInit ==
    /\ svcVer \in Versions
    /\ svcFails \in {f \in SUBSET ExternalCalls : Cardinality(f) <= MaxFailures}
    /\ svcInteractive \in BOOLEAN
    /\ svcProps \in PropLists(svcVer, MaxDeps)
    /\ svcDeps = Len(svcProps)
    /\ svcLoop = << >>
    /\ svcTemp = "none"
    /\ svcErr = NoErr
    /\ svcRaw = "empty"
    /\ svcTrace = << >>
    /\ svcRet = "running"
    /\ svcPc = IF svcVer = "part_008" THEN "GetServiceDetails" ELSE "TerraformInstall"

SvcIdle ==
    /\ svcVer = "part_007"
    /\ svcFails = {}
    /\ svcInteractive = FALSE
    /\ svcProps = << >>
    /\ svcDeps = 0
    /\ svcLoop = << >>
    /\ svcTemp = "none"
    /\ svcErr = NoErr
    /\ svcRaw = "empty"
    /\ svcTrace = << >>
    /\ svcRet = "idle"
    /\ svcPc = "idle"

Failed(call) == call \in svcFails
ErrOf(call) == IF Failed(call) THEN call ELSE NoErr

Step(call, failed) == [call |-> call, failed |-> failed]
Perform(call) == svcTrace' = Append(svcTrace, Step(call, Failed(call)))

\* if err != nil { return err }, then the next call site; temp is the
\* temporary file as the call left it
ReturnOrGotoWith(err, next, temp) ==
    IF err # NoErr
    THEN svcRet' = err /\ svcPc' = "returned" /\ svcTemp' = DeferredRemove(temp)
    ELSE svcRet' = svcRet /\ svcPc' = next /\ svcTemp' = temp

ReturnOrGoto(err, next) == ReturnOrGotoWith(err, next, svcTemp)

\* a call whose error is assigned to err and tested
Checked(call, next) ==
    /\ svcPc = call
    /\ Perform(call)
    /\ svcErr' = ErrOf(call)
    /\ ReturnOrGoto(ErrOf(call), next)

\* part_008 79-85
SvcGetServiceDetails ==
    /\ svcVer = "part_008"
    /\ Checked("GetServiceDetails", "TerraformInstall")
    /\ UNCHANGED <<svcVer, svcProps, svcLoop, svcFails, svcInteractive, svcDeps, svcRaw,
                 escVars, gsVars, libVars, qVars, ikVars, nmVars>>

SvcTerraformInstall ==
    /\ Checked("TerraformInstall", "CreateInitTerraformFiles")
    /\ UNCHANGED <<svcVer, svcProps, svcLoop, svcFails, svcInteractive, svcDeps, svcRaw,
                 escVars, gsVars, libVars, qVars, ikVars, nmVars>>

\* defer os.Remove(tempf.Name()) stands before the test of err: tempf is nil
\* when the call failed, and tempf.Name() dereferences it
SvcCreateInitTerraformFiles ==
    /\ svcPc = "CreateInitTerraformFiles"
    /\ Perform("CreateInitTerraformFiles")
    /\ svcErr' = ErrOf("CreateInitTerraformFiles")
    /\ IF Failed("CreateInitTerraformFiles")
       THEN svcRet' = "panic" /\ svcPc' = "returned" /\ svcTemp' = "none"
       ELSE svcRet' = svcRet /\ svcPc' = "TerraformInit" /\ svcTemp' = "present"
    /\ UNCHANGED <<svcVer, svcProps, svcLoop, svcFails, svcInteractive, svcDeps, svcRaw,
                 escVars, gsVars, libVars, qVars, ikVars, nmVars>>

SvcTerraformInit ==
    /\ Checked("TerraformInit",
               IF svcVer = "part_007" THEN "TerraformVersion" ELSE "TerraformImport service")
    /\ UNCHANGED <<svcVer, svcProps, svcLoop, svcFails, svcInteractive, svcDeps, svcRaw,
                 escVars, gsVars, libVars, qVars, ikVars, nmVars>>

\* part_007 98-101
SvcTerraformVersion ==
    /\ svcVer = "part_007"
    /\ Checked("TerraformVersion", "TerraformImport service")
    /\ UNCHANGED <<svcVer, svcProps, svcLoop, svcFails, svcInteractive, svcDeps, svcRaw,
                 escVars, gsVars, libVars, qVars, ikVars, nmVars>>

\* part_007 assigns the result to err; part_008 calls TerraformImport without
\* assigning it and tests the err TerraformInit left
SvcImportService ==
    /\ svcPc = "TerraformImport service"
    /\ Perform("TerraformImport service")
    /\ LET err == IF svcVer = "part_007" THEN ErrOf("TerraformImport service") ELSE svcErr
       IN svcErr' = err /\ ReturnOrGoto(err, "TerraformShow")
    /\ UNCHANGED <<svcVer, svcProps, svcLoop, svcFails, svcInteractive, svcDeps, svcRaw,
                 escVars, gsVars, libVars, qVars, ikVars, nmVars>>

\* rawHCL, err := TerraformShow(tf): err is not tested before the next call
\* site assigns it again; rawHCL is "" when the call failed, and when the
\* state holds no service because its import failed
SvcTerraformShow ==
    /\ svcPc = "TerraformShow"
    /\ Perform("TerraformShow")
    /\ svcErr' = ErrOf("TerraformShow")
    /\ svcRaw' = IF Failed("TerraformShow") \/ Failed("TerraformImport service")
                 THEN "empty" ELSE "dump"
    /\ svcRet' = svcRet
    /\ svcPc' = "ParseVCLServiceResource"
    /\ UNCHANGED <<svcTemp, svcVer, svcProps, svcLoop, svcFails, svcInteractive, svcDeps,
                 escVars, gsVars, libVars, qVars, ikVars, nmVars>>

\* LoadTFConf / parseHCL and ParseVCLServiceResource on rawHCL: the empty
\* text has no block
SvcClassify ==
    /\ svcPc = "ParseVCLServiceResource"
    /\ svcTrace' = Append(svcTrace, Step("ParseVCLServiceResource", FALSE))
    /\ LET err == IF svcRaw = "empty" THEN ErrBlockCount ELSE NoErr
       IN svcErr' = err /\ ReturnOrGoto(err, "TerraformImport dependent")
    /\ UNCHANGED <<svcVer, svcProps, svcLoop, svcFails, svcInteractive, svcDeps, svcRaw,
                 escVars, gsVars, libVars, qVars, ikVars, nmVars>>

\* the loop over props: the result of TerraformImport is not assigned, the
\* err tested is the one classification left
SvcImportDependent ==
    /\ svcPc = "TerraformImport dependent"
    /\ svcDeps > 0
    /\ CurrentProp \in ImportedKinds
    /\ Perform("TerraformImport dependent")
    /\ svcDeps' = svcDeps - 1
    /\ svcLoop' = Append(svcLoop, Visit(CurrentProp, svcInteractive, svcInteractive, TRUE))
    /\ ReturnOrGoto(svcErr, "TerraformImport dependent")
    /\ UNCHANGED <<svcVer, svcProps, svcFails, svcInteractive, svcErr, svcRaw,
                 escVars, gsVars, libVars, qVars, ikVars, nmVars>>

\* interactive mode: the answer is no, the loop continues
SvcSkipDependent ==
    /\ svcPc = "TerraformImport dependent"
    /\ svcDeps > 0
    /\ CurrentProp \in ImportedKinds
    /\ svcInteractive
    /\ svcDeps' = svcDeps - 1
    /\ svcLoop' = Append(svcLoop, Visit(CurrentProp, TRUE, FALSE, FALSE))
    /\ UNCHANGED <<svcTemp, svcVer, svcProps, svcFails, svcInteractive, svcErr, svcRaw, svcTrace, svcRet, svcPc,
                 escVars, gsVars, libVars, qVars, ikVars, nmVars>>

\* a descriptor of a variant the type switch has no case for
SvcOtherDescriptor ==
    /\ svcPc = "TerraformImport dependent"
    /\ svcDeps > 0
    /\ CurrentProp \notin ImportedKinds
    /\ svcDeps' = svcDeps - 1
    /\ svcLoop' = Append(svcLoop, Visit(CurrentProp, FALSE, FALSE, FALSE))
    /\ UNCHANGED <<svcTemp, svcVer, svcProps, svcFails, svcInteractive, svcErr, svcRaw, svcTrace,
                 svcRet, svcPc, escVars, gsVars, libVars, qVars, ikVars, nmVars>>

\* the loop is over: tempf.Close()
SvcCloseTemp ==
    /\ svcPc = "TerraformImport dependent"
    /\ svcDeps = 0
    /\ Perform("tempf.Close")
    /\ svcErr' = svcErr
    /\ ReturnOrGoto(ErrOf("tempf.Close"),
                    IF svcVer = "part_007" THEN "os.Remove" ELSE "ShowPlanFileRaw")
    /\ UNCHANGED <<svcVer, svcProps, svcLoop, svcFails, svcInteractive, svcDeps, svcRaw,
                 escVars, gsVars, libVars, qVars, ikVars, nmVars>>

\* part_007 156-158
SvcRemoveTemp ==
    /\ svcVer = "part_007"
    /\ svcPc = "os.Remove"
    /\ Perform("os.Remove")
    /\ svcErr' = svcErr
    /\ ReturnOrGotoWith(ErrOf("os.Remove"), "ShowPlanFileRaw",
                        IF Failed("os.Remove") THEN svcTemp ELSE "removed")
    /\ UNCHANGED <<svcVer, svcProps, svcLoop, svcFails, svcInteractive, svcDeps, svcRaw,
                 escVars, gsVars, libVars, qVars, ikVars, nmVars>>

\* rawHCL, err = tf.ShowPlanFileRaw(...): err is not tested
SvcShowPlanFileRaw ==
    /\ svcPc = "ShowPlanFileRaw"
    /\ Perform("ShowPlanFileRaw")
    /\ svcErr' = ErrOf("ShowPlanFileRaw")
    /\ svcRaw' = IF Failed("ShowPlanFileRaw") THEN "empty" ELSE "dump"
    /\ svcRet' = svcRet
    /\ svcPc' = "RewriteResources"
    /\ UNCHANGED <<svcTemp, svcVer, svcProps, svcLoop, svcFails, svcInteractive, svcDeps,
                 escVars, gsVars, libVars, qVars, ikVars, nmVars>>

\* LoadTFConf and RewriteResources on rawHCL: the loop over the blocks of
\* the empty text returns the empty text
SvcRewrite ==
    /\ svcPc = "RewriteResources"
    /\ svcTrace' = Append(svcTrace, Step("RewriteResources", FALSE))
    /\ svcErr' = NoErr
    /\ svcRet' = svcRet
    /\ svcPc' = "OpenFile main.tf"
    /\ UNCHANGED <<svcTemp, svcVer, svcProps, svcLoop, svcFails, svcInteractive, svcDeps, svcRaw,
                 escVars, gsVars, libVars, qVars, ikVars, nmVars>>

\* f, err := os.OpenFile(path, ...): err is not tested
SvcOpenMain ==
    /\ svcPc = "OpenFile main.tf"
    /\ Perform("OpenFile main.tf")
    /\ svcErr' = ErrOf("OpenFile main.tf")
    /\ svcRet' = svcRet
    /\ svcPc' = "Write main.tf"
    /\ UNCHANGED <<svcTemp, svcVer, svcProps, svcLoop, svcFails, svcInteractive, svcDeps, svcRaw,
                 escVars, gsVars, libVars, qVars, ikVars, nmVars>>

\* f.Write(result): the result is not assigned; writing to the nil file of
\* a failed OpenFile fails
SvcWriteMain ==
    /\ svcPc = "Write main.tf"
    /\ svcTrace' = Append(svcTrace,
            Step("Write main.tf", Failed("Write main.tf") \/ Failed("OpenFile main.tf")))
    /\ svcRet' = svcRet
    /\ svcPc' = IF svcVer = "part_007" THEN "SetActivateAttr" ELSE "FetchAssetsViaFastlyAPI"
    /\ UNCHANGED <<svcTemp, svcVer, svcProps, svcLoop, svcFails, svcInteractive, svcDeps, svcErr, svcRaw,
                 escVars, gsVars, libVars, qVars, ikVars, nmVars>>

\* part_008 189-193
SvcFetchAssets ==
    /\ svcVer = "part_008"
    /\ Checked("FetchAssetsViaFastlyAPI", "completed")
    /\ UNCHANGED <<svcVer, svcProps, svcLoop, svcFails, svcInteractive, svcDeps, svcRaw,
                 escVars, gsVars, libVars, qVars, ikVars, nmVars>>

\* part_007 184-219: LoadTFState, SetActivateAttr, SetManageAttrs and the
\* index keys, on the state terraform import wrote
SvcPatchState ==
    /\ svcVer = "part_007"
    /\ svcPc = "SetActivateAttr"
    /\ svcTrace' = Append(svcTrace, Step("SetActivateAttr", FALSE))
    /\ svcErr' = NoErr
    /\ svcRet' = svcRet
    /\ svcPc' = "OpenFile terraform.tfstate"
    /\ UNCHANGED <<svcTemp, svcVer, svcProps, svcLoop, svcFails, svcInteractive, svcDeps, svcRaw,
                 escVars, gsVars, libVars, qVars, ikVars, nmVars>>

\* f, err = os.OpenFile(path, ...): err is not tested
SvcOpenState ==
    /\ svcVer = "part_007"
    /\ svcPc = "OpenFile terraform.tfstate"
    /\ Perform("OpenFile terraform.tfstate")
    /\ svcErr' = ErrOf("OpenFile terraform.tfstate")
    /\ svcRet' = svcRet
    /\ svcPc' = "Write terraform.tfstate"
    /\ UNCHANGED <<svcTemp, svcVer, svcProps, svcLoop, svcFails, svcInteractive, svcDeps, svcRaw,
                 escVars, gsVars, libVars, qVars, ikVars, nmVars>>

\* f.Write(newState.Bytes()); f.Close(): the results are not assigned
SvcWriteState ==
    /\ svcVer = "part_007"
    /\ svcPc = "Write terraform.tfstate"
    /\ svcTrace' = Append(svcTrace,
            Step("Write terraform.tfstate",
                 Failed("Write terraform.tfstate") \/ Failed("OpenFile terraform.tfstate")))
    /\ svcRet' = svcRet
    /\ svcPc' = "TerraformRefresh"
    /\ UNCHANGED <<svcTemp, svcVer, svcProps, svcLoop, svcFails, svcInteractive, svcDeps, svcErr, svcRaw,
                 escVars, gsVars, libVars, qVars, ikVars, nmVars>>

\* part_007 226-230
SvcRefresh ==
    /\ svcVer = "part_007"
    /\ Checked("TerraformRefresh", "completed")
    /\ UNCHANGED <<svcVer, svcProps, svcLoop, svcFails, svcInteractive, svcDeps, svcRaw,
                 escVars, gsVars, libVars, qVars, ikVars, nmVars>>

\* return nil
SvcCompleted ==
    /\ svcPc = "completed"
    /\ svcRet' = NoErr
    /\ svcPc' = "returned"
    /\ svcTemp' = DeferredRemove(svcTemp)
    /\ UNCHANGED <<svcVer, svcProps, svcLoop, svcFails, svcInteractive, svcDeps, svcErr, svcRaw, svcTrace,
                 escVars, gsVars, libVars, qVars, ikVars, nmVars>>

---------------------------------------------------------------------------
(* Specifications *)

\* the escaping step applied once and twice to every short raw text
InitEscape == EscInit /\ GsIdle /\ LibIdle /\ SvcIdle /\ QIdle /\ IkIdle /\ NmIdle
NextEscape == EscapeRaw \/ EscapeEscaped
SpecEscape == InitEscape /\ [][NextEscape]_vars

\* getStringAttributeValue applied to every small body
InitAttr == GsInit /\ EscIdle /\ LibIdle /\ SvcIdle /\ QIdle /\ IkIdle /\ NmIdle
NextAttr == GetString
SpecAttr == InitAttr /\ [][NextAttr]_vars

\* one run of the library on every small service
Init == LibInit /\ EscIdle /\ GsIdle /\ SvcIdle /\ QIdle /\ IkIdle /\ NmIdle
Next == Classify \/ Fetch \/ Show \/ Rewrite \/ Rerun \/ PatchState
Spec == Init /\ [][Next]_vars

\* TFState.Query with every small query and value
InitQuery == QInit /\ EscIdle /\ GsIdle /\ LibIdle /\ SvcIdle /\ IkIdle /\ NmIdle
NextQuery == Query
SpecQuery == InitQuery /\ [][NextQuery]_vars
\* the index key query with every small state and parameter
InitIndexKey == IkInit /\ EscIdle /\ GsIdle /\ LibIdle /\ SvcIdle /\ QIdle /\ NmIdle
NextIndexKey == QueryIndexKey
SpecIndexKey == InitIndexKey /\ [][NextIndexKey]_vars
\* GetNormalizedName of the service on every short name
InitName == NmInit /\ EscIdle /\ GsIdle /\ LibIdle /\ SvcIdle /\ QIdle /\ IkIdle
NextName == GetNormalizedName
SpecName == InitName /\ [][NextName]_vars

\* importService with every choice of failing external calls
InitService == SvcInit /\ EscIdle /\ GsIdle /\ LibIdle /\ QIdle /\ IkIdle /\ NmIdle
NextService ==
    \/ SvcGetServiceDetails \/ SvcTerraformInstall \/ SvcCreateInitTerraformFiles
    \/ SvcTerraformInit \/ SvcTerraformVersion \/ SvcImportService \/ SvcTerraformShow
    \/ SvcClassify \/ SvcImportDependent \/ SvcSkipDependent \/ SvcOtherDescriptor
    \/ SvcCloseTemp
    \/ SvcRemoveTemp \/ SvcShowPlanFileRaw \/ SvcRewrite \/ SvcOpenMain \/ SvcWriteMain
    \/ SvcFetchAssets \/ SvcPatchState \/ SvcOpenState \/ SvcWriteState \/ SvcRefresh
    \/ SvcCompleted
SpecService == InitService /\ [][NextService]_vars

---------------------------------------------------------------------------
(* Properties *)

\* the descriptor variant of a nested block type
VariantFor(blockType) ==
    CASE blockType = "acl" -> "ACL"
      [] blockType = "backend" -> "Backend"
      [] blockType = "dictionary" -> "Dictionary"
      [] blockType = "waf" -> "WAF"
      [] blockType = "dynamicsnippet" -> "DynamicSnippet"
      [] blockType = "snippet" -> "Snippet"
      [] blockType = "vcl" -> "VCL"
      [] HasLoggingPrefix(blockType) -> "Logging"
      [] OTHER -> "Placeholder"

Classified == pc \in {"classified", "shown", "rewritten", "rerun"}

\* C1: classification returns one descriptor per nested block of the
\* service resource, in the blocks' order, of the variant of the block's
\* type, a Placeholder for every block of another type
C1_OneDescriptorPerBlock ==
    Classified =>
        /\ Len(props) = Len(doc1[1].blocks)
        /\ \A i \in 1..Len(props) :
              i <= Len(doc1[1].blocks) => props[i].variant = VariantFor(doc1[1].blocks[i].type)

\* a classification of generation B that returned fewer descriptors than
\* the service has nested blocks
C1_BackendWithoutDescriptor ==
    /\ Classified /\ gen = "B"
    /\ \E i \in 1..Len(doc1[1].blocks) : doc1[1].blocks[i].type = "backend"
    /\ Len(props) < Len(doc1[1].blocks)

IsService(block) == block.type = "resource" /\ block.labels[1] = ServiceType
ServiceIndex(doc) == CHOOSE i \in 1..Len(doc) : IsService(doc[i])

\* C2: generation A's rewrite of the service block, given the descriptors
\* classification produced for the same nested blocks, looks up only
\* positions inside the list, and a backend block meets a Backend
\* descriptor, a logging block a Logging descriptor
C2_PositionalAlignment ==
    (gen = "A" /\ pc = "rewritten") =>
        /\ rw.status # "panic"
        /\ \A k \in 1..Len(rw.lookups) :
              LET l == rw.lookups[k]
              IN /\ l.inRange
                 /\ l.index \in 1..Len(props)
                 /\ l.variant = VariantFor(l.blockType)
                 /\ l.blockType = doc2[ServiceIndex(doc2)].blocks[l.index].type

\* a rewrite that looked up a descriptor behind a placeholder
C2_LookupBehindPlaceholder ==
    /\ gen = "A" /\ pc = "rewritten"
    /\ \E k \in 1..Len(rw.lookups) :
          /\ rw.lookups[k].index > 1
          /\ props[rw.lookups[k].index - 1].variant = "Placeholder"

\* C3: RewriteResources on its own output, with the same descriptor, state
\* and configuration, succeeds and returns the same text
C3_RewriteIdempotent ==
    pc = "rerun" => (rw2.status = "ok" /\ rw2.doc = rw.doc)

\* a second run that failed on the comment the first run injected
C3_SecondRunFailsOnComment ==
    /\ pc = "rerun"
    /\ ~HasAttr(doc2[ServiceIndex(doc2)], "comment")
    /\ rw2.status = "err" /\ rw2.err = ErrNoQuotedLit

KnownResourceTypes ==
    {"fastly_service_vcl", "fastly_service_waf_configuration",
     "fastly_service_dynamic_snippet_content", "fastly_service_dictionary_items",
     "fastly_service_acl_entries"}

HasUnknownResource(doc) ==
    \E i \in 1..Len(doc) : doc[i].type = "resource" /\ doc[i].labels[1] \notin KnownResourceTypes

\* C4: RewriteResources returns no text for a document with a top-level
\* resource block whose first label is not a known resource type
C4_UnknownLabelRejected ==
    (pc = "rewritten" /\ HasUnknownResource(doc2)) => rw.status = "err"

\* a rewrite that returned text for a document with such a block
C4_UnknownLabelAccepted ==
    pc = "rewritten" /\ HasUnknownResource(doc2) /\ rw.status = "ok"

StepFailed(r) == \E i \in 1..Len(r.stepErrs) : r.stepErrs[i] # NoErr

\* C5: RewriteResources returns an error whenever a per-resource rewrite
\* step failed, and never crashes
C5_StepFailureReturned ==
    pc = "rewritten" =>
        /\ rw.status # "panic"
        /\ StepFailed(rw) => rw.status = "err"

\* generation A returned text after a failed step
C5_FailureDroppedA ==
    pc = "rewritten" /\ gen = "A" /\ StepFailed(rw) /\ rw.status = "ok"

\* the document has exactly one top-level block, the service resource
WellFormedDump(doc) ==
    /\ Len(doc) = 1
    /\ doc[1].type = "resource"
    /\ doc[1].labels[1] = ServiceType

\* C7: classification fails with a structural error and returns no
\* descriptors unless the document is exactly one resource block of the
\* service's type
C7_StructureChecked ==
    (pc # "start" /\ ~WellFormedDump(doc1)) =>
        /\ pc = "failed"
        /\ clsErr \in {ErrBlockCount, ErrUnexpectedBlock}
        /\ props = << >>

\* a document of two blocks, the service resource among them, was rejected
C7_TwoBlocksRejected ==
    /\ pc = "failed" /\ clsErr = ErrBlockCount
    /\ Len(doc1) = 2 /\ \E i \in 1..2 : IsService(doc1[i])

\* C8: getStringAttributeValue returns a value only for a plain string
\* literal: a missing attribute yields ErrAttrNotFound, and any other
\* expression shape yields an error and never a value
C8_OnlyLiteralsYieldValue ==
    gsPc = "done" =>
        /\ ~HasAttr(gsBlock, gsKey) => gsRes.err = ErrAttrNotFound
        /\ (HasAttr(gsBlock, gsKey) /\ AttrExpr(gsBlock, gsKey).shape # "literal")
               => gsRes.err \notin {NoErr, ErrAttrNotFound}
        /\ gsRes.err = NoErr => AttrExpr(gsBlock, gsKey).shape = "literal"

\* a function call yielded its string argument
C8_CallYieldsValue ==
    /\ gsPc = "done" /\ HasAttr(gsBlock, gsKey)
    /\ AttrExpr(gsBlock, gsKey).shape = "call"
    /\ gsRes.err = NoErr

\* C9: the escaping step is idempotent: applied to text it has already
\* escaped, it leaves that text unchanged
C9_EscapeIdempotent == escPc = "twice" => escOut2 = escOut1

\* the second application changed escaped text
C9_SecondEscapeChanges == escPc = "twice" /\ escOut2 # escOut1

\* the attributes the rewrite rules of a nested block type name
RuleAttrs(blockType) ==
    CASE blockType = "acl" -> {"acl_id"}
      [] blockType = "dictionary" -> {"dictionary_id"}
      [] blockType = "waf" -> {"waf_id"}
      [] blockType = "dynamicsnippet" -> {"snippet_id"}
      [] blockType = "backend" -> {"ssl_client_cert", "ssl_client_key"}
      [] blockType = "request_setting" -> {"xff"}
      [] blockType \in {"response_object", "snippet", "vcl"} -> {"content"}
      [] HasLoggingPrefix(blockType) -> {"format"} \cup Range(SensKeysB(blockType))
      [] OTHER -> {}

RootRuleAttrs == {"id", "active_version", "cloned_version", "comment"}

\* the attributes of a body a set of rules does not name, in order
Frame(block, ruleAttrs) == SelectSeq(block.attrs, LAMBDA a : a.key \notin ruleAttrs)

IdAttr(blockType) ==
    CASE blockType = "acl" -> "acl_id"
      [] blockType = "dictionary" -> "dictionary_id"
      [] blockType = "waf" -> "waf_id"
      [] OTHER -> "snippet_id"

\* every step of the run returned without an error
Rewritten == pc \in {"rewritten", "rerun"} /\ rw.status = "ok" /\ ~StepFailed(rw)

\* C10: the rewritten service block has no id, active_version or
\* cloned_version, its nested acl, dictionary, waf and dynamicsnippet blocks
\* have no acl_id, dictionary_id, waf_id or snippet_id, and the nested blocks
\* and every attribute no rule names are as before
C10_ServiceRootRewritten ==
    Rewritten =>
        LET before == doc2[ServiceIndex(doc2)]
            after == rw.doc[ServiceIndex(doc2)]
        IN /\ \A k \in {"id", "active_version", "cloned_version"} : ~HasAttr(after, k)
           /\ Len(after.blocks) = Len(before.blocks)
           /\ \A i \in 1..Len(before.blocks) :
                 /\ i <= Len(after.blocks)
                 /\ after.blocks[i].type = before.blocks[i].type
                 /\ before.blocks[i].type \in {"acl", "dictionary", "waf", "dynamicsnippet"}
                       => ~HasAttr(after.blocks[i], IdAttr(before.blocks[i].type))
                 /\ Frame(after.blocks[i], RuleAttrs(before.blocks[i].type))
                       = Frame(before.blocks[i], RuleAttrs(before.blocks[i].type))
           /\ Frame(after, RootRuleAttrs) = Frame(before, RootRuleAttrs)
           /\ after.labels = before.labels

\* a rewritten service with two nested blocks, one of them with an id
C10_RewrittenWithNestedId ==
    /\ Rewritten
    /\ Len(doc2[ServiceIndex(doc2)].blocks) = MaxNested
    /\ \E i \in 1..MaxNested :
          doc2[ServiceIndex(doc2)].blocks[i].type \in {"acl", "dictionary", "waf", "dynamicsnippet"}

\* C6: importService is fail-fast: an external call that failed is the
\* last step performed, and its error is what importService returned
C6_FailFast ==
    \A i \in 1..Len(svcTrace) :
        svcTrace[i].failed =>
            /\ i = Len(svcTrace)
            /\ svcPc = "returned"
            /\ svcRet = svcTrace[i].call

\* importService of part_007 completed after terraform show had failed
C6_CompletedAfterFailedShow ==
    /\ svcVer = "part_007" /\ svcPc = "returned" /\ svcRet = NoErr
    /\ \E i \in 1..Len(svcTrace) : svcTrace[i].call = "ShowPlanFileRaw" /\ svcTrace[i].failed

---------------------------------------------------------------------------
(* Properties of the dependent resources *)

\* the positions of the top-level resource blocks with this first label
ResourcesOf(doc, label) ==
    {i \in 1..Len(doc) : doc[i].type = "resource" /\ doc[i].labels[1] = label}

\* the number of attributes of a body with this key
AttrCount(block, key) == Cardinality({i \in 1..Len(block.attrs) : block.attrs[i].key = key})

\* the block has exactly one attribute of this key, with this expression
HasOnly(block, key, expr) == AttrCount(block, key) = 1 /\ AttrExpr(block, key) = expr

\* C11: the rewritten fastly_service_acl_entries block has no acl_id and no
\* id, exactly one service_id, the traversal fastly_service_vcl.<name>.id,
\* and none of its entry sub-blocks has an id
C11_ACLResourceWithoutAclId ==
    Rewritten =>
        \A i \in ResourcesOf(doc2, "fastly_service_acl_entries") :
            /\ ~HasAttr(rw.doc[i], "acl_id")
            /\ ~HasAttr(rw.doc[i], "id")
            /\ HasOnly(rw.doc[i], "service_id", buildServiceIDRef(serviceProp))
            /\ \A j \in 1..Len(rw.doc[i].blocks) : ~HasAttr(rw.doc[i].blocks[j], "id")

\* C11 as amended: the rewritten fastly_service_acl_entries block has no
\* id and keeps its acl_id as it was, has exactly one service_id, the
\* traversal fastly_service_vcl.<name>.id, and none of its entry sub-blocks
\* has an id
C11_ACLResourceRewritten ==
    Rewritten =>
        \A i \in ResourcesOf(doc2, "fastly_service_acl_entries") :
            /\ ~HasAttr(rw.doc[i], "id")
            /\ HasAttr(rw.doc[i], "acl_id") = HasAttr(doc2[i], "acl_id")
            /\ HasAttr(doc2[i], "acl_id") => AttrExpr(rw.doc[i], "acl_id") = AttrExpr(doc2[i], "acl_id")
            /\ HasOnly(rw.doc[i], "service_id", buildServiceIDRef(serviceProp))
            /\ Len(rw.doc[i].blocks) = Len(doc2[i].blocks)
            /\ \A j \in 1..Len(rw.doc[i].blocks) :
                  /\ rw.doc[i].blocks[j].type = "entry"
                  /\ ~HasAttr(rw.doc[i].blocks[j], "id")

\* a rewritten ACL resource whose entry had an id and whose service_id was
\* a literal
C11_ACLEntryHadId ==
    /\ Rewritten
    /\ \E i \in ResourcesOf(doc2, "fastly_service_acl_entries") :
          /\ HasAttr(doc2[i], "acl_id") /\ HasAttr(doc2[i], "id")
          /\ AttrExpr(doc2[i], "service_id") = StrLit(ServiceID)
          /\ \E j \in 1..Len(doc2[i].blocks) : HasAttr(doc2[i].blocks[j], "id")

WAFRuleAttrs == {"active", "cloned_version", "number", "id", "waf_id"}

\* C12: the rewritten fastly_service_waf_configuration block has no active,
\* cloned_version, number or id, exactly one waf_id, the traversal
\* <service type>.<name>.waf[0].waf_id, and its other attributes unchanged
C12_WAFResourceRewritten ==
    Rewritten =>
        \A i \in ResourcesOf(doc2, "fastly_service_waf_configuration") :
            /\ \A k \in {"active", "cloned_version", "number", "id"} : ~HasAttr(rw.doc[i], k)
            /\ HasOnly(rw.doc[i], "waf_id", WAFIDRef(serviceProp))
            /\ Frame(rw.doc[i], WAFRuleAttrs) = Frame(doc2[i], WAFRuleAttrs)
            /\ rw.doc[i].blocks = doc2[i].blocks
            /\ rw.doc[i].labels = doc2[i].labels

\* a rewritten WAF resource that had the four attributes, a literal waf_id
\* and an attribute no rule names
C12_WAFHadReadOnlyAttrs ==
    /\ Rewritten
    /\ \E i \in ResourcesOf(doc2, "fastly_service_waf_configuration") :
          /\ \A k \in {"active", "cloned_version", "number", "id"} : HasAttr(doc2[i], k)
          /\ AttrExpr(doc2[i], "waf_id").shape = "literal"
          /\ Frame(doc2[i], WAFRuleAttrs) # << >>

ManageKeys == {"manage_entries", "manage_items", "manage_snippets"}

\* the resource type a manage_* attribute belongs to
ManageType(k) ==
    CASE k = "manage_entries" -> "fastly_service_acl_entries"
      [] k = "manage_items" -> "fastly_service_dictionary_items"
      [] OTHER -> "fastly_service_dynamic_snippet_content"

\* C13: with ManageAll every fastly_service_acl_entries block has
\* manage_entries = true, every fastly_service_dictionary_items block
\* manage_items = true, every fastly_service_dynamic_snippet_content block
\* manage_snippets = true, and so have the resources of these types in the
\* patched state; no other block or resource, and without ManageAll no block
\* or resource at all, gains or changes a manage_* attribute
C13_ManageFlagsOnlyOnRequest ==
    /\ Rewritten =>
          \A i \in 1..Len(doc2) : \A k \in ManageKeys :
              IF manageAll /\ doc2[i].type = "resource" /\ doc2[i].labels[1] = ManageType(k)
              THEN HasOnly(rw.doc[i], k, BoolLit(<<"true">>))
              ELSE /\ HasAttr(rw.doc[i], k) = HasAttr(doc2[i], k)
                   /\ HasAttr(doc2[i], k) => AttrExpr(rw.doc[i], k) = AttrExpr(doc2[i], k)
                   /\ \A j \in 1..Len(rw.doc[i].blocks) : ~HasAttr(rw.doc[i].blocks[j], k)
    /\ newState.done =>
          /\ Len(newState.value) = Len(tfstate)
          /\ \A i \in 1..Len(tfstate) : \A k \in ManageKeys :
                IF manageAll /\ tfstate[i].type = ManageType(k)
                THEN GetField(newState.value[i].scalars, k) = JBool(<<"true">>)
                ELSE GetField(newState.value[i].scalars, k) = GetField(tfstate[i].scalars, k)

\* a run with ManageAll whose configuration and patched state hold ACL
\* entries and dictionary items
C13_ManagedEntriesAndItems ==
    /\ Rewritten /\ newState.done /\ manageAll
    /\ ResourcesOf(doc2, "fastly_service_acl_entries") # {}
    /\ ResourcesOf(doc2, "fastly_service_dictionary_items") # {}
    /\ \E i \in 1..Len(tfstate) : tfstate[i].type = "fastly_service_acl_entries"

\* a run without ManageAll whose configuration and patched state hold a
\* dynamic snippet
C13_UnmanagedSnippet ==
    /\ Rewritten /\ newState.done /\ ~manageAll
    /\ ResourcesOf(doc2, "fastly_service_dynamic_snippet_content") # {}

\* the paths of the file(...) expressions of the attributes of a block
FilePathsOfAttrs(block) ==
    {block.attrs[i].expr.tokens[4].bytes :
        i \in {j \in 1..Len(block.attrs) :
                  /\ block.attrs[j].expr.shape = "call"
                  /\ block.attrs[j].expr.tokens[1].bytes = <<"file">>}}

\* the paths of the file(...) expressions of a block and its nested blocks
FilePaths(block) ==
    FilePathsOfAttrs(block)
        \cup UNION {FilePathsOfAttrs(block.blocks[i]) : i \in 1..Len(block.blocks)}

\* the paths of the file(...) expressions of a configuration
ConfigPaths(doc) == UNION {FilePaths(doc[i]) : i \in 1..Len(doc)}

\* the path, relative to the working directory, a written file is referred by
PathOf(file) ==
    (CASE file.fileType = "vcl" -> <<".", "/", "v", "c", "l", "/">>
       [] file.fileType = "content" -> <<".", "/", "c", "o", "n", "t", "e", "n", "t", "/">>
       [] file.fileType = "logformat" -> <<".", "/", "l", "o", "g", "f", "o", "r", "m", "a", "t", "/">>) \o file.name

\* the files of a run: generation A writes them while fetching, generation B
\* while rewriting
WrittenFiles == IF gen = "A" THEN fetchFiles ELSE rw.files
WrittenPaths == {PathOf(WrittenFiles[i]) : i \in 1..Len(WrittenFiles)}

\* the attribute of a content-bearing block that rewriting replaces
ContentKey(block) ==
    CASE block.type \in {"vcl", "snippet"} -> "content"
      [] block.type = "response_object" /\ gen = "B" -> "content"
      [] block.type = "resource" /\ block.labels[1] = "fastly_service_dynamic_snippet_content" -> "content"
      [] HasLoggingPrefix(block.type) /\ HasAttr(block, "format") -> "format"
      [] OTHER -> ""

\* the paths the naming scheme gives a content-bearing block
SchemePaths(block, name) ==
    LET n == normalizeName(name)
    IN CASE block.type = "vcl" -> {<<".", "/", "v", "c", "l", "/">> \o n \o <<".", "v", "c", "l">>}
         [] block.type = "snippet" -> {<<".", "/", "v", "c", "l", "/", "s", "n", "i", "p", "p", "e", "t", "_">> \o n \o <<".", "v", "c", "l">>}
         [] block.type = "response_object" -> {<<".", "/", "c", "o", "n", "t", "e", "n", "t", "/">> \o n \o <<".", "t", "x", "t">>}
         [] block.type = "resource" -> {<<".", "/", "v", "c", "l", "/", "d", "s", "n", "i", "p", "p", "e", "t", "_">> \o n \o <<".", "v", "c", "l">>}
         [] OTHER -> {<<".", "/", "l", "o", "g", "f", "o", "r", "m", "a", "t", "/">> \o n \o <<".", "t", "x", "t">>, <<".", "/", "l", "o", "g", "f", "o", "r", "m", "a", "t", "/">> \o n \o <<".", "j", "s", "o", "n">>}

\* the content-bearing blocks of a configuration, with the name each is
\* saved under
ContentBlocks(doc) ==
    LET svc == doc[ServiceIndex(doc)]
    IN {<<svc.blocks[i], getStringAttributeValue(svc.blocks[i], "name").value>> :
            i \in {j \in 1..Len(svc.blocks) : ContentKey(svc.blocks[j]) # ""}}
       \cup {<<doc[i], doc[i].labels[2]>> :
            i \in {j \in 1..Len(doc) : ContentKey(doc[j]) # ""}}

ServiceOf(state) == state[CHOOSE i \in 1..Len(state) : state[i].type = ServiceType]

HasSuffix(s, suffix) ==
    Len(s) >= Len(suffix) /\ SubSeq(s, Len(s) - Len(suffix) + 1, Len(s)) = suffix

\* the logging blocks of the rewritten service whose format was externalized
ExternalizedLogging(doc) ==
    LET svc == doc[ServiceIndex(doc)]
    IN {svc.blocks[i] : i \in {j \in 1..Len(svc.blocks) :
                                  /\ HasLoggingPrefix(svc.blocks[j].type)
                                  /\ HasAttr(svc.blocks[j], "format")
                                  /\ AttrExpr(svc.blocks[j], "format").shape = "call"}}

\* the format the state and the API hold for a logging block
FetchedFormat(nb) ==
    APIString(GetField(APIObject(ServiceOf(tfstate), nb.type,
                                 getStringAttributeValue(nb, "name").value), "format"))

C16_OneFilePerBlock ==
    (Rewritten /\ (gen = "A" => fetched)) =>
        \A i, j \in 1..Len(WrittenFiles) :
            PathOf(WrittenFiles[i]) = PathOf(WrittenFiles[j]) => i = j

\* a run that wrote the content of two snippets to one path, the second over
\* the first
C16_SnippetOverwritten ==
    /\ Rewritten /\ (gen = "A" => fetched)
    /\ \E i, j \in 1..Len(WrittenFiles) :
          /\ i < j
          /\ PathOf(WrittenFiles[i]) = <<".", "/", "v", "c", "l", "/", "s", "n", "i", "p", "p", "e", "t", "_", "n", ".", "v", "c", "l">>
          /\ PathOf(WrittenFiles[j]) = <<".", "/", "v", "c", "l", "/", "s", "n", "i", "p", "p", "e", "t", "_", "n", ".", "v", "c", "l">>
          /\ WrittenFiles[i].content # WrittenFiles[j].content

\* the nested blocks of a type of the rewritten service
NestedOf(doc, type) ==
    LET svc == doc[ServiceIndex(doc)]
    IN {svc.blocks[i] : i \in {j \in 1..Len(svc.blocks) : svc.blocks[j].type = type}}

\* the value the state and the API hold for an attribute of a nested block
Recovered(nb, key) ==
    APIString(GetField(APIObject(ServiceOf(tfstate), nb.type,
                                 getStringAttributeValue(nb, "name").value), key))

\* C17: a rewritten backend block has ssl_client_cert set to the recovered
\* certificate and ssl_client_key to the recovered key, each when non-empty
C17_BackendSecretsSet ==
    (Rewritten /\ (gen = "A" => fetched)) =>
        \A nb \in NestedOf(rw.doc, "backend") :
            \A key \in {"ssl_client_cert", "ssl_client_key"} :
                Recovered(nb, key) # << >> => HasOnly(nb, key, StrLit(Recovered(nb, key)))

\* a run that wrote the client key into ssl_client_cert and left
\* ssl_client_key as the dump had it
C17_KeyWrittenToCert ==
    /\ Rewritten /\ (gen = "A" => fetched)
    /\ \E nb \in NestedOf(rw.doc, "backend") :
          /\ Recovered(nb, "ssl_client_key") # Recovered(nb, "ssl_client_cert")
          /\ HasOnly(nb, "ssl_client_cert", StrLit(Recovered(nb, "ssl_client_key")))
          /\ HasOnly(nb, "ssl_client_key", Masked)

\* the logging blocks of a service that have sensitive attributes
SensitiveLogging(doc) ==
    LET svc == doc[ServiceIndex(doc)]
    IN {svc.blocks[i] : i \in {j \in 1..Len(svc.blocks) :
                                  /\ HasLoggingPrefix(svc.blocks[j].type)
                                  /\ SensKeysB(svc.blocks[j].type) # << >>}}

\* the sensitive values of a logging block are unavailable: generation A has
\* not filled the descriptor, generation B does not find the block's entry
\* in the state under the name its query template renders
SecretsUnavailable(nb) ==
    IF gen = "A" THEN ~fetched
    ELSE HTMLEscape(getStringAttributeValue(nb, "name").value)
            # getStringAttributeValue(nb, "name").value

\* C18: a rewritten logging block has each sensitive attribute of its subtype
\* set to the recovered value, and the rewrite fails with an error when the
\* values of a logging block are unavailable
C18_LoggingSecretsSetOrError ==
    pc \in {"rewritten", "rerun"} =>
        /\ (rw.status = "ok" /\ ~StepFailed(rw)) =>
              \A nb \in SensitiveLogging(rw.doc) :
                  \A k \in 1..Len(SensKeysB(nb.type)) :
                      HasOnly(nb, SensKeysB(nb.type)[k], StrLit(Recovered(nb, SensKeysB(nb.type)[k])))
        /\ (\E nb \in SensitiveLogging(doc2) : SecretsUnavailable(nb)) =>
              /\ rw.status # "panic"
              /\ StepFailed(rw) \/ rw.status = "err"

\* a run of generation B that crashed on a logging block whose entry the
\* state query did not find
C18_CrashOnUnfoundEndpoint ==
    /\ pc = "rewritten" /\ gen = "B"
    /\ \E nb \in SensitiveLogging(doc2) : SecretsUnavailable(nb)
    /\ rw.status = "panic"

\* the service resource of a configuration
Root(doc) == doc[ServiceIndex(doc)]

\* C19: the rewritten service has comment = "" exactly when the dump had no
\* comment, a comment that is there is left as it is, and a rewrite does not
\* fail on a comment that is there
C19_CommentSetOnlyWhenAbsent ==
    /\ Rewritten =>
          IF HasAttr(Root(doc2), "comment")
          THEN HasOnly(Root(rw.doc), "comment", AttrExpr(Root(doc2), "comment"))
          ELSE HasOnly(Root(rw.doc), "comment", StrLit(<< >>))
    /\ (pc = "rerun" /\ HasAttr(Root(rw.doc), "comment")) =>
          ~(rw2.status = "err" /\ rw2.err = ErrNoQuotedLit)

\* a rewrite that failed on a service whose comment attribute is there and
\* empty
C19_EmptyCommentRejected ==
    /\ pc = "rerun"
    /\ HasOnly(Root(rw.doc), "comment", StrLit(<< >>))
    /\ rw2.status = "err" /\ rw2.err = ErrNoQuotedLit
    /\ rw2.stepErrs = <<ErrNoQuotedLit>>

\* C20: Query returns the not-found error when the query yields nothing, the
\* error when the first item is an error, and otherwise the first item as a
\* new TFState; an error comes with no value, and the value of the TFState
\* Query was called on is as before
C20_QueryFirstResultOrError ==
    qPc = "done" =>
        LET items == Emit(qQuery, qBefore)
        IN /\ (Parses(qQuery) /\ items = << >>) => qRes = QueryErr(ErrNotFoundInState)
           /\ (Parses(qQuery) /\ items # << >> /\ items[1].isErr) => qRes = QueryErr(ErrCannotIterate)
           /\ (Parses(qQuery) /\ items # << >> /\ ~items[1].isErr) => qRes = QueryOk(items[1].v)
           /\ qRes.err # NoErr => qRes.value = JNull
           /\ qValue = qBefore

\* a query that yielded two different values, of which Query returned the
\* first
C20_FirstOfTwoReturned ==
    /\ qPc = "done" /\ qQuery = ".[]" /\ qValue.kind = "arr"
    /\ Len(qValue.str) = 2 /\ qValue.str[1] # qValue.str[2]
    /\ qRes = QueryOk(qValue.str[1])


\* the attributes of a resource but one
AttrsBut(r, k) == SelectSeq(r.scalars, LAMBDA f : f.k # k)

ActivatedTypes == {"fastly_service_vcl", "fastly_service_waf_configuration"}

\* C21: the state SetActivateAttr returns has activate = true on every
\* resource of type fastly_service_vcl or fastly_service_waf_configuration,
\* and is the input state in everything else
C21_ActivateSetOnServiceAndWAF ==
    newState.done =>
        /\ Len(newState.activated) = Len(tfstate)
        /\ \A i \in 1..Len(tfstate) :
              IF tfstate[i].type \in ActivatedTypes
              THEN /\ GetField(newState.activated[i].scalars, "activate") = JBool(<<"true">>)
                   /\ AttrsBut(newState.activated[i], "activate") = AttrsBut(tfstate[i], "activate")
                   /\ [newState.activated[i] EXCEPT !.scalars = << >>]
                         = [tfstate[i] EXCEPT !.scalars = << >>]
              ELSE newState.activated[i] = tfstate[i]

\* a patched state that holds the service, a WAF and a resource of another
\* type
C21_ServiceWAFAndOtherPatched ==
    /\ newState.done
    /\ \E i, j, k \in 1..Len(tfstate) :
          /\ tfstate[i].type = "fastly_service_vcl"
          /\ tfstate[j].type = "fastly_service_waf_configuration"
          /\ tfstate[k].type \notin ActivatedTypes

\* the resource is the one the parameters of the index key query name
IkMatches(r) == r.type = ikParams.ResourceType /\ r.name = ikParams.ResourceName

\* C22: the index key query adds index_key = <name of the object> to the
\* instance of the resource of the given type and normalized name, and
\* leaves every other resource, and the rest of that resource, as it was
C22_IndexKeyOnNamedResourceOnly ==
    ikPc = "done" =>
        /\ Len(ikRes) = Len(ikState)
        /\ \A i \in 1..Len(ikState) :
              IF IkMatches(ikState[i])
              THEN ikRes[i] = [ikState[i] EXCEPT !.instance = <<Field("index_key", JStr(ikParams.Name))>>]
              ELSE ikRes[i] = ikState[i]
        /\ (\A i \in 1..Len(ikState) : ~IkMatches(ikState[i])) => ikRes = ikState

\* a call that set the index key "A" on the resource named "a" of the type
\* asked for, in a state that has a resource named "a" of the other type
C22_SameNameOtherTypeUntouched ==
    /\ ikPc = "done" /\ ikParams.Name = <<"A">>
    /\ \E i, j \in 1..Len(ikState) :
          /\ IkMatches(ikState[i])
          /\ ikState[j].name = ikState[i].name /\ ikState[j].type # ikState[i].type
          /\ GetField(ikRes[i].instance, "index_key") = JStr(<<"A">>)
          /\ ikRes[j] = ikState[j]

\* the positions of a call in the steps performed
CallsOf(call) == {i \in 1..Len(svcTrace) : svcTrace[i].call = call}

\* C23: the descriptors are changed only between classification and
\* rewriting: FetchAssetsViaFastlyAPI, the one step that writes to them,
\* comes after classification and before RewriteResources
C23_DescriptorsFilledBeforeRewrite ==
    \A j \in CallsOf("FetchAssetsViaFastlyAPI") :
        /\ \E i \in CallsOf("ParseVCLServiceResource") : i < j
        /\ \A i \in CallsOf("RewriteResources") : j < i

\* a run that fetched into the descriptors after RewriteResources had
\* returned and main.tf was written
C23_FetchedAfterRewrite ==
    /\ svcVer = "part_008"
    /\ \E i \in CallsOf("RewriteResources"), k \in CallsOf("Write main.tf"),
          j \in CallsOf("FetchAssetsViaFastlyAPI") :
              i < k /\ k < j /\ ~svcTrace[j].failed

\* a Terraform resource name: it begins with a letter or an underscore and
\* has only letters, digits, underscores and dashes
IsTerraformName(name) ==
    LET letters == Range(UpperLetters) \cup Range(LowerLetters)
    IN /\ Len(name) >= 1
       /\ name[1] \in letters \cup {"_"}
       /\ \A i \in 1..Len(name) : name[i] \in letters \cup Digits \cup {"_", "-"}

\* C24: the normalized name of the service is the normalized form of its
\* name when that is a Terraform resource name, and "service" otherwise, so
\* it is always a Terraform resource name; "My Snippet.v2" normalizes to
\* "my_snippet_v2"
C24_NormalizedNameIsValid ==
    /\ normalizeName(<<"M", "y", " ", "S", "n", "i", "p", "p", "e", "t", ".", "v", "2">>) = <<"m", "y", "_", "s", "n", "i", "p", "p", "e", "t", "_", "v", "2">>
    /\ nmPc = "done" =>
          /\ IsTerraformName(nmOut)
          /\ nmOut = IF IsTerraformName(normalizeName(nmName))
                     THEN normalizeName(nmName) ELSE <<"s", "e", "r", "v", "i", "c", "e">>

\* a name with a backslash that was returned as it is
C24_BackslashAccepted ==
    /\ nmPc = "done"
    /\ \E i \in 1..Len(nmName) : nmName[i] = "\\"
    /\ nmOut = normalizeName(nmName)
    /\ ~IsTerraformName(nmOut)

NamedInState(doc, state) ==
    {nb \in {Root(doc).blocks[i] : i \in 1..Len(Root(doc).blocks)} :
        /\ getStringAttributeValue(nb, "name").err = NoErr
        /\ HasArray(ServiceOf(state), nb.type)
        /\ \E i \in 1..Len(GetArray(ServiceOf(state), nb.type)) :
              GetField(GetArray(ServiceOf(state), nb.type)[i], "name")
                  = JStr(getStringAttributeValue(nb, "name").value)}

\* the query the rewrite compiles for a field of a nested block
CompiledQuery(nb, field) ==
    QueryService(tfstate, QueryParams(ServiceNormalizedName(serviceProp), nb.type,
                                      getStringAttributeValue(nb, "name").value, field))

\* C26: a compiled query compares against exactly the parameter strings: the
\* query of the method-based rewrite for a nested block whose name the state
\* holds finds that entry, whatever characters the name has
C26_CompiledQueryFindsName ==
    (gen = "B" /\ pc \in {"rewritten", "rerun"}) =>
        \A nb \in NamedInState(doc2, tfstate) :
            CompiledQuery(nb, "name")
                = QueryOk(JStr(getStringAttributeValue(nb, "name").value))

\* a rewrite whose query for a block named with an ampersand found nothing,
\* although the state holds the entry under that name
C26_AmpersandNameNotFound ==
    /\ gen = "B" /\ pc = "rewritten"
    /\ \E nb \in NamedInState(doc2, tfstate) :
          /\ \E i \in 1..Len(getStringAttributeValue(nb, "name").value) :
                getStringAttributeValue(nb, "name").value[i] = "&"
          /\ CompiledQuery(nb, "name") = QueryErr(ErrNotFoundInState)

\* the place of a step in the order of the pipeline; 0 for a call that is
\* not one of its steps
StepRank(call) ==
    CASE call = "TerraformImport service" -> 1
      [] call = "TerraformShow" -> 2
      [] call = "ParseVCLServiceResource" -> 3
      [] call = "TerraformImport dependent" -> 4
      [] call = "ShowPlanFileRaw" -> 5
      [] call = "RewriteResources" -> 6
      [] call = "Write main.tf" -> 7
      [] call = "SetActivateAttr" -> 8
      [] call = "Write terraform.tfstate" -> 8
      [] call = "TerraformRefresh" -> 9
      [] OTHER -> 0

PipelineSteps == {i \in 1..Len(svcTrace) : StepRank(svcTrace[i].call) > 0}

\* C27: the steps of the pipeline occur in the fixed order, each step but
\* the dependent import at most once and only after the step before it; a
\* descriptor the loop visited was imported exactly when it is a WAF, ACL,
\* dictionary or dynamic-snippet descriptor and, in interactive mode, the
\* user confirmed it, with one import call for each; no dependent import
\* comes before classification or after the second show
C27_PipelineOrder ==
    /\ \A i, j \in PipelineSteps :
          i < j => /\ StepRank(svcTrace[i].call) <= StepRank(svcTrace[j].call)
                   /\ (svcTrace[i].call = svcTrace[j].call
                          => svcTrace[i].call = "TerraformImport dependent")
    /\ \A j \in PipelineSteps :
          StepRank(svcTrace[j].call) \in 2..9 =>
              \E i \in PipelineSteps :
                  /\ i < j
                  /\ StepRank(svcTrace[i].call) = StepRank(svcTrace[j].call) - 1
                        \/ (StepRank(svcTrace[j].call) = 5 /\ StepRank(svcTrace[i].call) = 3)
    /\ \A i \in 1..Len(svcLoop) :
          /\ svcLoop[i].kind = svcProps[i]
          /\ svcLoop[i].asked <=> (svcInteractive /\ svcLoop[i].kind \in
                                      {"WAF", "ACL", "Dictionary", "DynamicSnippet"})
          /\ svcLoop[i].imported <=>
                /\ svcLoop[i].kind \in {"WAF", "ACL", "Dictionary", "DynamicSnippet"}
                /\ svcInteractive => svcLoop[i].yes
    /\ Cardinality(CallsOf("TerraformImport dependent"))
          = Cardinality({i \in 1..Len(svcLoop) : svcLoop[i].imported})
    /\ \A j \in CallsOf("TerraformImport dependent") :
          /\ \E i \in CallsOf("ParseVCLServiceResource") : i < j
          /\ \A i \in CallsOf("ShowPlanFileRaw") : j < i
    /\ CallsOf("ShowPlanFileRaw") # {} => Len(svcLoop) = Len(svcProps)

\* an interactive run that went through to the refresh, imported one
\* descriptor and left out one the user declined
C27_RefreshedAfterImportAndDecline ==
    /\ svcVer = "part_007" /\ svcInteractive /\ svcPc = "returned" /\ svcRet = NoErr
    /\ CallsOf("TerraformRefresh") # {}
    /\ \E i, j \in 1..Len(svcLoop) : svcLoop[i].imported /\ svcLoop[j].asked /\ ~svcLoop[j].yes

\* a run of the older pipeline that visited a descriptor of a block variant
\* and did not import it
C27_BlockVariantNotImported ==
    /\ svcVer = "part_008" /\ CallsOf("ShowPlanFileRaw") # {}
    /\ \E i \in 1..Len(svcLoop) : svcLoop[i].kind \in {"Backend", "Snippet"}

\* C30: when importService has returned and the temp*.tf file had been
\* created, the file is removed (unless the removal itself failed), and
\* when creating the initial Terraform files failed, importService returned
\* that error
C30_TempFileRemovedOrErrorReturned ==
    svcPc = "returned" =>
        /\ (\E i \in CallsOf("CreateInitTerraformFiles") : ~svcTrace[i].failed) =>
              svcTemp = "removed" \/ Failed("os.Remove")
        /\ (\E i \in CallsOf("CreateInitTerraformFiles") : svcTrace[i].failed) =>
              svcRet = "CreateInitTerraformFiles"

\* CreateInitTerraformFiles failed and importService crashed on the nil file
\* of the deferred removal instead of returning the error
C30_CrashOnFailedCreate ==
    /\ svcPc = "returned" /\ svcRet = "panic"
    /\ \E i \in CallsOf("CreateInitTerraformFiles") : svcTrace[i].failed
    /\ svcTemp = "none"

DSnippetType == "fastly_service_dynamic_snippet_content"

\* the fields of a nested block the rewrite queries the state for
QueriedFields ==
    {"content", "format", "xff", "ssl_client_cert", "ssl_client_key", "tls_client_key",
     "s3_access_key", "s3_secret_key"}

\* the nested blocks of the service of a configuration that have a name
NamedNested(doc) ==
    {nb \in {Root(doc).blocks[i] : i \in 1..Len(Root(doc).blocks)} :
        getStringAttributeValue(nb, "name").err = NoErr}

\* the resources of a state that have this type
OfType(state, type) == SelectSeq(state, LAMBDA r : r.type = type)

\* the file a rewrite wrote for a dynamic snippet resource
DSnippetFile(block) ==
    {rw.files[k] : k \in {j \in 1..Len(rw.files) :
        /\ rw.files[j].fileType = "vcl"
        /\ rw.files[j].name = <<"d", "s", "n", "i", "p", "p", "e", "t", "_">> \o normalizeName(block.labels[2]) \o <<".", "v", "c", "l">>}}

\* C28: the queries of the method-based rewrite read from the resource of
\* the intended type: the query for a field of a nested service block
\* returns what it returns on the fastly_service_vcl resource alone, the
\* query for the content of a dynamic snippet what it returns on the
\* dynamic snippet resources alone, and the file written for a dynamic
\* snippet holds the content of its own instance
C28_QueriesReadIntendedType ==
    (gen = "B" /\ pc \in {"rewritten", "rerun"}) =>
        /\ \A nb \in NamedNested(doc2), field \in QueriedFields :
              CompiledQuery(nb, field)
                 = QueryService(OfType(tfstate, ServiceType),
                       QueryParams(ServiceNormalizedName(serviceProp), nb.type,
                                   getStringAttributeValue(nb, "name").value, field))
        /\ \A i \in ResourcesOf(doc2, DSnippetType) :
              /\ QueryDSnippet(tfstate, QueryParams(doc2[i].labels[2], "", << >>, ""))
                    = QueryDSnippet(OfType(tfstate, DSnippetType),
                                    QueryParams(doc2[i].labels[2], "", << >>, ""))
              /\ Rewritten =>
                    \A f \in DSnippetFile(doc2[i]) : f.content = DynamicSnippetContent

\* a rewrite that wrote the text null as the content of a dynamic snippet:
\* the query had met the ACL resource of the same name first
C28_SnippetContentFromACL ==
    /\ gen = "B" /\ Rewritten
    /\ \E i \in ResourcesOf(doc2, DSnippetType) :
          /\ \E j \in 1..(i - 1) : doc2[j].labels = <<"fastly_service_acl_entries", doc2[i].labels[2]>>
          /\ \E f \in DSnippetFile(doc2[i]) : f.content = <<"n", "u", "l", "l">>

\* a rewrite that failed on a nested block of the service: the query had
\* met the dictionary resource named as the service first
C28_NestedQueryMetDictionary ==
    /\ gen = "B" /\ pc = "rewritten"
    /\ \E j \in 1..Len(tfstate) :
          tfstate[j].type = "fastly_service_dictionary_items"
             /\ tfstate[j].name = ServiceNormalizedName(serviceProp)
    /\ \E nb \in NamedNested(doc2) :
          /\ CompiledQuery(nb, "content") = QueryErr(ErrCannotIterate)
          /\ QueryService(OfType(tfstate, ServiceType),
                 QueryParams(ServiceNormalizedName(serviceProp), nb.type,
                             getStringAttributeValue(nb, "name").value, "content")).err = NoErr

\* the state has no value for a field of the entry of a nested block: the
\* field is absent or null
BlankInState(nb, key) ==
    GetField(APIObject(ServiceOf(tfstate), nb.type,
                       getStringAttributeValue(nb, "name").value), key) = JNull

\* C29: a field the state has no value for is treated as empty: the
\* rewritten backend block has no ssl_client_cert or ssl_client_key the
\* state has no value for, and the rewritten request_setting block whose
\* xff the state has no value for has xff = ""
C29_BlankStateValueIsEmpty ==
    (gen = "B" /\ Rewritten) =>
        /\ \A nb \in NestedOf(rw.doc, "backend") :
              \A key \in {"ssl_client_cert", "ssl_client_key"} :
                  BlankInState(nb, key) => ~HasAttr(nb, key)
        /\ \A nb \in NestedOf(rw.doc, "request_setting") :
              BlankInState(nb, "xff") => HasOnly(nb, "xff", StrLit(<< >>))

\* a rewritten backend block with the text null as its key and its
\* certificate, the state having none
C29_NullWrittenToBackend ==
    /\ gen = "B" /\ Rewritten
    /\ \E nb \in NestedOf(rw.doc, "backend") :
          /\ BlankInState(nb, "ssl_client_cert") /\ BlankInState(nb, "ssl_client_key")
          /\ \E key \in {"ssl_client_cert", "ssl_client_key"} :
                HasOnly(nb, key, StrLit(<<"n", "u", "l", "l">>))

\* a rewritten request_setting block without xff, the state having none
C29_XffLeftUnset ==
    /\ gen = "B" /\ Rewritten
    /\ \E nb \in NestedOf(rw.doc, "request_setting") :
          BlankInState(nb, "xff") /\ ~HasAttr(nb, "xff")

=============================================================================
